---- MODULE Spec2Model ----
(***************************************************************************)
(* keybinds-rs: the binding-syntax parser (src/src/key.rs) and the         *)
(* incremental key-sequence dispatcher (src/src/keybind.rs).               *)
(*                                                                         *)
(* Strings are TLA+ strings; a character is a string of length 1.          *)
(* Time is counted in seconds: an Instant is a natural number and a        *)
(* Duration is a natural number.                                           *)
(***************************************************************************)
EXTENDS Integers, Sequences, FiniteSets, TLC

VARIABLES
    binds,       \* KeybindDispatcher.binds : Keybinds<A>, a sequence of [seq, action]
    ongoing,     \* KeybindDispatcher.ongoing : Vec<KeyInput>
    last_input,  \* KeybindDispatcher.last_input : Option<Instant>
    timeout,     \* KeybindDispatcher.timeout : Duration
    now,         \* the monotonic clock read by Instant::now()
    op,          \* the API call made last and its argument
    ret,         \* the value that call returned
    probe,       \* the slice handed to Keybinds::find by that call (<<>> if none)
    expired,     \* is_timeout as computed by handle_timeout in that call (FALSE if none)
    entry,       \* last_input as it was when that call was entered
    since,       \* when the first of the buffered inputs was dispatched or, after
                 \* a dispatch that ended a match, the first of the inputs it
                 \* looked up (0 if there are none)
    target_macos, \* whether the build has cfg(target_os = "macos")
    lib          \* the function of the library applied last to values of the caller,
                 \* with its arguments and its result

dispatcher ==
    <<binds, ongoing, last_input, timeout, now, op, ret, probe, expired, entry, since>>

vars == <<binds, ongoing, last_input, timeout, now, op, ret, probe, expired, entry,
          since, target_macos, lib>>

-----------------------------------------------------------------------------
(* Bounds of the model *)

MaxBinds == 2
MaxTime == 3
MaxLen == 3
MaxSeqLen == 2

-----------------------------------------------------------------------------
(* Key: src/src/key.rs *)

Char(c) == [tag |-> "Char", ch |-> c]
Named(n) == [tag |-> n, ch |-> ""]
Ignored == Named("Ignored")
Unidentified == Named("Unidentified")

\* Slip: every variant but Char counts as named, Ignored and Unidentified too
is_named_but_char(key) ==
    IF key.tag = "Char" THEN key.ch \in {" ", "+"}
    ELSE TRUE

is_named(key) ==
    IF key.tag = "Char" THEN key.ch \in {" ", "+"}
    ELSE IF key.tag \in {"Ignored", "Unidentified"} THEN FALSE
    ELSE TRUE

-----------------------------------------------------------------------------
(* Mods: a bit set *)

NONE == 0
CTRL == 1
CMD == 2
ALT == 4
WIN == 8
SHIFT == 16

contains(mods, bit) == (mods \div bit) % 2 = 1
remove(mods, bit) == IF contains(mods, bit) THEN mods - bit ELSE mods
\* Slip: the bit is added whether it is held already or not
bitor_sum(mods, bit) == (mods + bit) % (2 * SHIFT)

bitor(mods, bit) == IF contains(mods, bit) THEN mods ELSE mods + bit

-----------------------------------------------------------------------------
(* KeyInput *)

KeyInput(key, mods) == [key |-> key, mods |-> mods]

\* Slip: Shift is taken off every key, the named ones too
KeyInputNewShiftless(key, mods) == KeyInput(key, remove(mods, SHIFT))

KeyInputNew(key, mods) ==
    KeyInput(key, IF ~is_named(key) THEN remove(mods, SHIFT) ELSE mods)

KeyInputFrom(key) == KeyInputNew(key, NONE)

-----------------------------------------------------------------------------
(* Results of parsing: Ok(val) or Err(err) *)

NoErr == [kind |-> "", str |-> "", key |-> Named("")]
Ok(v) == [ok |-> TRUE, val |-> v, err |-> NoErr]
Err(e) == [ok |-> FALSE, val |-> <<>>, err |-> e]
EmptyKey == [kind |-> "EmptyKey", str |-> "", key |-> Named("")]
UnknownKey(s) == [kind |-> "UnknownKey", str |-> s, key |-> Named("")]
EmptyModifier == [kind |-> "EmptyModifier", str |-> "", key |-> Named("")]
UnknownModifier(s) == [kind |-> "UnknownModifier", str |-> s, key |-> Named("")]
EmptyKeySequence == [kind |-> "EmptyKeySequence", str |-> "", key |-> Named("")]
ShiftUnavailable(k) == [kind |-> "ShiftUnavailable", str |-> "", key |-> k]

-----------------------------------------------------------------------------
(* String helpers of the standard library used by the parsers *)

AsciiWhitespace == {" ", "\t", "\n", "\f", "\r"}

CharAt(s, i) == SubSeq(s, i, i)

RECURSIVE TrimStart(_)
TrimStart(s) ==
    IF Len(s) > 0 /\ CharAt(s, 1) \in AsciiWhitespace
    THEN TrimStart(SubSeq(s, 2, Len(s)))
    ELSE s

RECURSIVE TrimEnd(_)
TrimEnd(s) ==
    IF Len(s) > 0 /\ CharAt(s, Len(s)) \in AsciiWhitespace
    THEN TrimEnd(SubSeq(s, 1, Len(s) - 1))
    ELSE s

trim_ascii(s) == TrimEnd(TrimStart(s))

\* str::split(sep): the pieces between the separators, empty pieces included
RECURSIVE SplitFrom(_, _, _, _)
SplitFrom(s, seps, start, i) ==
    IF i > Len(s) THEN <<SubSeq(s, start, Len(s))>>
    ELSE IF CharAt(s, i) \in seps
         THEN <<SubSeq(s, start, i - 1)>> \o SplitFrom(s, seps, i + 1, i + 1)
         ELSE SplitFrom(s, seps, start, i + 1)

split(s, sep) == SplitFrom(s, {sep}, 1, 1)

\* str::split_ascii_whitespace(): the non-empty pieces between whitespace
split_ascii_whitespace(s) ==
    SelectSeq(SplitFrom(s, AsciiWhitespace, 1, 1), LAMBDA t : Len(t) > 0)

-----------------------------------------------------------------------------
(* Key::from_str *)

KeyNames ==
    { [names |-> {"space", "Space", "SPACE"}, key |-> Char(" ")],
      [names |-> {"plus", "Plus", "PLUS"}, key |-> Char("+")],
      [names |-> {"up", "Up", "UP"}, key |-> Named("Up")],
      [names |-> {"right", "Right", "RIGHT"}, key |-> Named("Right")],
      [names |-> {"down", "Down", "DOWN"}, key |-> Named("Down")],
      [names |-> {"left", "Left", "LEFT"}, key |-> Named("Left")],
      [names |-> {"enter", "Enter", "ENTER"}, key |-> Named("Enter")],
      [names |-> {"backspace", "Backspace", "BACKSPACE"}, key |-> Named("Backspace")],
      [names |-> {"delete", "Delete", "DELETE"}, key |-> Named("Delete")],
      [names |-> {"home", "Home", "HOME"}, key |-> Named("Home")],
      [names |-> {"end", "End", "END"}, key |-> Named("End")],
      [names |-> {"pageup", "PageUp", "PAGEUP"}, key |-> Named("PageUp")],
      [names |-> {"pagedown", "PageDown", "PAGEDOWN"}, key |-> Named("PageDown")],
      [names |-> {"esc", "Esc", "ESC", "escape", "Escape", "ESCAPE"}, key |-> Named("Esc")],
      [names |-> {"tab", "Tab", "TAB"}, key |-> Named("Tab")],
      [names |-> {"backtab", "Backtab", "BACKTAB"}, key |-> Named("Backtab")],
      [names |-> {"insert", "Insert", "INSERT"}, key |-> Named("Insert")],
      [names |-> {"copy", "Copy", "COPY"}, key |-> Named("Copy")],
      [names |-> {"cut", "Cut", "CUT"}, key |-> Named("Cut")],
      [names |-> {"paste", "Paste", "PASTE"}, key |-> Named("Paste")],
      [names |-> {"clear", "Clear", "CLEAR"}, key |-> Named("Clear")],
      [names |-> {"undo", "Undo", "UNDO"}, key |-> Named("Undo")],
      [names |-> {"redo", "Redo", "REDO"}, key |-> Named("Redo")],
      [names |-> {"zoomin", "ZoomIn", "ZOOMIN"}, key |-> Named("ZoomIn")],
      [names |-> {"zoomout", "ZoomOut", "ZOOMOUT"}, key |-> Named("ZoomOut")],
      [names |-> {"scrolllock", "ScrollLock", "SCROLLLOCK"}, key |-> Named("ScrollLock")],
      [names |-> {"fnlock", "FnLock", "FNLOCK"}, key |-> Named("FnLock")],
      [names |-> {"numlock", "NumLock", "NUMLOCK"}, key |-> Named("NumLock")],
      [names |-> {"printscreen", "PrintScreen", "PRINTSCREEN"}, key |-> Named("PrintScreen")],
      [names |-> {"menu", "Menu", "MENU"}, key |-> Named("Menu")],
      [names |-> {"play", "Play", "PLAY"}, key |-> Named("Play")],
      [names |-> {"pause", "Pause", "PAUSE"}, key |-> Named("Pause")],
      [names |-> {"playpause", "PlayPause", "PLAYPAUSE"}, key |-> Named("PlayPause")],
      [names |-> {"stop", "Stop", "STOP"}, key |-> Named("Stop")],
      [names |-> {"rewind", "Rewind", "REWIND"}, key |-> Named("Rewind")],
      [names |-> {"nexttrack", "NextTrack", "NEXTTRACK"}, key |-> Named("NextTrack")],
      [names |-> {"prevtrack", "PrevTrack", "PREVTRACK"}, key |-> Named("PrevTrack")],
      [names |-> {"volumeup", "VolumeUp", "VOLUMEUP"}, key |-> Named("VolumeUp")],
      [names |-> {"volumedown", "VolumeDown", "VOLUMEDOWN"}, key |-> Named("VolumeDown")],
      [names |-> {"mute", "Mute", "MUTE"}, key |-> Named("Mute")],
      [names |-> {"f1", "F1"}, key |-> Named("F1")],
      [names |-> {"f2", "F2"}, key |-> Named("F2")],
      [names |-> {"f3", "F3"}, key |-> Named("F3")],
      [names |-> {"f4", "F4"}, key |-> Named("F4")],
      [names |-> {"f5", "F5"}, key |-> Named("F5")],
      [names |-> {"f6", "F6"}, key |-> Named("F6")],
      [names |-> {"f7", "F7"}, key |-> Named("F7")],
      [names |-> {"f8", "F8"}, key |-> Named("F8")],
      [names |-> {"f9", "F9"}, key |-> Named("F9")],
      [names |-> {"f10", "F10"}, key |-> Named("F10")],
      [names |-> {"f11", "F11"}, key |-> Named("F11")],
      [names |-> {"f12", "F12"}, key |-> Named("F12")],
      [names |-> {"f13", "F13"}, key |-> Named("F13")],
      [names |-> {"f14", "F14"}, key |-> Named("F14")],
      [names |-> {"f15", "F15"}, key |-> Named("F15")],
      [names |-> {"f16", "F16"}, key |-> Named("F16")],
      [names |-> {"f17", "F17"}, key |-> Named("F17")],
      [names |-> {"f18", "F18"}, key |-> Named("F18")],
      [names |-> {"f19", "F19"}, key |-> Named("F19")],
      [names |-> {"f20", "F20"}, key |-> Named("F20")],
      [names |-> {"f21", "F21"}, key |-> Named("F21")],
      [names |-> {"f22", "F22"}, key |-> Named("F22")],
      [names |-> {"f23", "F23"}, key |-> Named("F23")],
      [names |-> {"f24", "F24"}, key |-> Named("F24")],
      [names |-> {"f25", "F25"}, key |-> Named("F25")],
      [names |-> {"f26", "F26"}, key |-> Named("F26")],
      [names |-> {"f27", "F27"}, key |-> Named("F27")],
      [names |-> {"f28", "F28"}, key |-> Named("F28")],
      [names |-> {"f29", "F29"}, key |-> Named("F29")],
      [names |-> {"f30", "F30"}, key |-> Named("F30")],
      [names |-> {"f31", "F31"}, key |-> Named("F31")],
      [names |-> {"f32", "F32"}, key |-> Named("F32")],
      [names |-> {"f33", "F33"}, key |-> Named("F33")],
      [names |-> {"f34", "F34"}, key |-> Named("F34")],
      [names |-> {"f35", "F35"}, key |-> Named("F35")] }

\* Slip: a single character is taken as the key before the blanks are cut off
ParseKeyUntrimmed(str) ==
    LET s == trim_ascii(str) IN
    IF Len(str) = 1 THEN Ok(Char(str))
    ELSE IF \E e \in KeyNames : s \in e.names
         THEN Ok((CHOOSE e \in KeyNames : s \in e.names).key)
    ELSE IF s = "" THEN Err(EmptyKey)
    ELSE Err(UnknownKey(s))

ParseKey(str) ==
    LET s == trim_ascii(str) IN
    IF Len(s) = 1 THEN Ok(Char(s))
    ELSE IF \E e \in KeyNames : s \in e.names
         THEN Ok((CHOOSE e \in KeyNames : s \in e.names).key)
    ELSE IF s = "" THEN Err(EmptyKey)
    ELSE Err(UnknownKey(s))

-----------------------------------------------------------------------------
(* Mods::MOD, Mods::SUPER and Mods::from_str.  macos is the build's          *)
(* cfg(target_os = "macos").                                                  *)

MOD(macos) == IF macos THEN CMD ELSE CTRL
SUPER(macos) == IF macos THEN CMD ELSE WIN

\* Slip: the names are looked up with the case of their letters folded
ParseModsAnyCase(str, macos) ==
    LET s == trim_ascii(str)
        Is(names) ==
            \E n \in names :
                /\ Len(n) = Len(s)
                /\ \A i \in 1 .. Len(n) :
                       \/ CharAt(n, i) = CharAt(s, i)
                       \/ \E j \in 1 .. 26 :
                              { CharAt(n, i), CharAt(s, i) } =
                                  { CharAt("abcdefghijklmnopqrstuvwxyz", j),
                                    CharAt("ABCDEFGHIJKLMNOPQRSTUVWXYZ", j) }
    IN
    IF Is({"Control", "Ctrl"}) THEN Ok(CTRL)
    ELSE IF Is({"Command", "Cmd"}) THEN Ok(CMD)
    ELSE IF Is({"Mod"}) THEN Ok(MOD(macos))
    ELSE IF Is({"Alt", "Option"}) THEN Ok(ALT)
    ELSE IF Is({"Super"}) THEN Ok(SUPER(macos))
    ELSE IF Is({"Shift"}) THEN Ok(SHIFT)
    ELSE IF s = "" THEN Err(EmptyModifier)
    ELSE Err(UnknownModifier(str))

ParseMods(str, macos) ==
    LET s == trim_ascii(str) IN
    IF s \in {"Control", "control", "CONTROL", "Ctrl", "ctrl", "CTRL"} THEN Ok(CTRL)
    ELSE IF s \in {"Command", "command", "COMMAND", "Cmd", "cmd", "CMD"} THEN Ok(CMD)
    ELSE IF s \in {"Mod", "mod", "MOD"} THEN Ok(MOD(macos))
    ELSE IF s \in {"Alt", "alt", "ALT", "Option", "option", "OPTION"} THEN Ok(ALT)
    ELSE IF s \in {"Super", "super", "SUPER"} THEN Ok(SUPER(macos))
    ELSE IF s \in {"Shift", "shift", "SHIFT"} THEN Ok(SHIFT)
    ELSE IF s = "" THEN Err(EmptyModifier)
    ELSE Err(UnknownModifier(str))

-----------------------------------------------------------------------------
(* KeyInput::from_str: every piece but the last is a modifier, the last is    *)
(* the key.  toks is the result of split('+'), i the piece looked at.         *)

\* Slip: Shift on a key without a name is dropped as KeyInput::new drops it
RECURSIVE ParseKeyInputLoopLenient(_, _, _, _)
ParseKeyInputLoopLenient(toks, i, mods, macos) ==
    IF i < Len(toks)
    THEN LET m == ParseMods(toks[i], macos) IN
         IF ~m.ok THEN Err(m.err)
         ELSE ParseKeyInputLoopLenient(toks, i + 1, bitor(mods, m.val), macos)
    ELSE LET k == ParseKey(toks[i]) IN
         IF ~k.ok THEN Err(k.err)
         ELSE Ok(KeyInputNew(k.val, mods))

RECURSIVE ParseKeyInputLoop(_, _, _, _)
ParseKeyInputLoop(toks, i, mods, macos) ==
    IF i < Len(toks)
    THEN LET m == ParseMods(toks[i], macos) IN
         IF ~m.ok THEN Err(m.err)
         ELSE ParseKeyInputLoop(toks, i + 1, bitor(mods, m.val), macos)
    ELSE LET k == ParseKey(toks[i]) IN
         IF ~k.ok THEN Err(k.err)
         ELSE IF contains(mods, SHIFT) /\ ~is_named(k.val)
              THEN Err(ShiftUnavailable(k.val))
         ELSE Ok(KeyInput(k.val, mods))

ParseKeyInput(str, macos) ==
    ParseKeyInputLoop(split(trim_ascii(str), "+"), 1, NONE, macos)

-----------------------------------------------------------------------------
(* KeySeq: a sequence of KeyInput.  KeySeq::from_str collects the parses of  *)
(* the whitespace-separated pieces and stops at the first error.              *)

\* Slip: every piece is parsed and the error found last is the one returned
RECURSIVE CollectKeyInputsLastError(_, _, _, _)
CollectKeyInputsLastError(toks, i, acc, macos) ==
    IF i > Len(toks) THEN Ok(acc)
    ELSE LET r == ParseKeyInput(toks[i], macos)
             rest == CollectKeyInputsLastError(
                         toks, i + 1, IF r.ok THEN Append(acc, r.val) ELSE acc, macos)
         IN  IF ~rest.ok THEN rest
             ELSE IF ~r.ok THEN Err(r.err)
             ELSE rest

RECURSIVE CollectKeyInputs(_, _, _, _)
CollectKeyInputs(toks, i, acc, macos) ==
    IF i > Len(toks) THEN Ok(acc)
    ELSE LET r == ParseKeyInput(toks[i], macos) IN
         IF ~r.ok THEN Err(r.err)
         ELSE CollectKeyInputs(toks, i + 1, Append(acc, r.val), macos)

\* Slip: a string without key inputs parses to the sequence without inputs
ParseKeySeqOrNothing(str, macos) ==
    CollectKeyInputs(split_ascii_whitespace(str), 1, <<>>, macos)

ParseKeySeq(str, macos) ==
    LET vec == CollectKeyInputs(split_ascii_whitespace(str), 1, <<>>, macos) IN
    IF ~vec.ok THEN vec
    ELSE IF vec.val = <<>> THEN Err(EmptyKeySequence)
    ELSE vec

-----------------------------------------------------------------------------
(* KeySeq built without parsing.  An item is anything Into<KeyInput>: a key  *)
(* (converted by From<K: Into<Key>> for KeyInput) or a KeyInput (kept).      *)

IntoKeyInput(item) ==
    IF "tag" \in DOMAIN item THEN KeyInputFrom(item) ELSE item

\* #[derive(Default)]: the default of the vector inside, which has no element
KeySeqDefault == <<>>

\* From<I> for KeySeq: smallvec![key.into()]
KeySeqFromOne(item) == <<IntoKeyInput(item)>>

\* From<[I; N]> and FromIterator<I>: into_iter().map(Into::into).collect()
KeySeqFromItems(items) == [i \in 1 .. Len(items) |-> IntoKeyInput(items[i])]

\* KeySeq::push, KeySeq::insert (idx counts from 0) and Extend::extend
KeySeqPush(seq, input) == Append(seq, input)
KeySeqInsert(seq, idx, input) ==
    SubSeq(seq, 1, idx) \o <<input>> \o SubSeq(seq, idx + 1, Len(seq))
KeySeqExtend(seq, items) == seq \o KeySeqFromItems(items)

-----------------------------------------------------------------------------
(* Display for Key, Mods, KeyInput and KeySeq *)

\* every variant without payload is written as its own name
FormatKey(key) ==
    IF key = Char(" ") THEN "Space"
    ELSE IF key = Char("+") THEN "Plus"
    ELSE IF key.tag = "Char" THEN key.ch
    ELSE key.tag

\* the (value, name) pairs in the order Display for Mods walks them
ModNames ==
    << [value |-> CTRL, name |-> "Ctrl"],
       [value |-> CMD, name |-> "Cmd"],
       [value |-> ALT, name |-> "Alt"],
       [value |-> WIN, name |-> "Win"],
       [value |-> SHIFT, name |-> "Shift"] >>

RECURSIVE FormatModsFrom(_, _, _)
FormatModsFrom(mods, i, first) ==
    IF i > Len(ModNames) THEN ""
    ELSE IF contains(mods, ModNames[i].value)
         THEN (IF first THEN "" ELSE "+") \o ModNames[i].name
                  \o FormatModsFrom(mods, i + 1, FALSE)
         ELSE FormatModsFrom(mods, i + 1, first)

FormatMods(mods) == FormatModsFrom(mods, 1, TRUE)

FormatKeyInput(input) ==
    (IF input.mods # NONE THEN FormatMods(input.mods) \o "+" ELSE "")
        \o FormatKey(input.key)

RECURSIVE FormatKeySeqFrom(_, _)
FormatKeySeqFrom(seq, i) ==
    IF i > Len(seq) THEN ""
    ELSE (IF i > 1 THEN " " ELSE "") \o FormatKeyInput(seq[i])
             \o FormatKeySeqFrom(seq, i + 1)

FormatKeySeq(seq) == FormatKeySeqFrom(seq, 1)

-----------------------------------------------------------------------------
(* Serialize for KeyInput, KeySeq and Keybinds: src/src/serde.rs.  What the  *)
(* serializer is given: a string, or the entries of a map in the order they  *)
(* are given in; an action is serialized as the action's type says.          *)

\* S::Error::custom(msg)
Custom(msg) == [kind |-> "Custom", str |-> msg, key |-> Named("")]

SerializeKeyInput(input) == Ok(FormatKeyInput(input))

\* Slip: a sequence without inputs is written as the empty string
SerializeKeySeqBlank(seq) == Ok(FormatKeySeq(seq))

SerializeKeySeq(seq) ==
    IF seq = <<>> THEN Err(Custom("Key sequence must not be empty"))
    ELSE Ok(FormatKeySeq(seq))

\* the loop over the bindings, map holding the entries given so far
RECURSIVE SerializeEntries(_, _, _)
SerializeEntries(table, i, map) ==
    IF i > Len(table) THEN Ok(map)
    ELSE LET k == SerializeKeySeq(table[i].seq) IN
         IF ~k.ok THEN Err(k.err)
         ELSE SerializeEntries(table, i + 1, Append(map, <<k.val, table[i].action>>))

SerializeKeybinds(table) == SerializeEntries(table, 1, <<>>)

-----------------------------------------------------------------------------
(* Conversions from the events of crossterm, termwiz, winit and iced:        *)
(* src/src/crossterm.rs, termwiz.rs, winit.rs, iced.rs.  A key code of a     *)
(* framework is the record [tag, ch]: tag its variant and ch the character   *)
(* of a character key; a modifier state is the set of the flags it holds.    *)

\* From<KeyCode> for Key (crossterm): a few rows of the table and its ends
CrosstermKey(code) ==
    IF code.tag = "Char" THEN Char(code.ch)
    ELSE IF code.tag \in {"Enter", "Backspace"} THEN Named(code.tag)
    ELSE IF code.tag \in {"Modifier", "Null"} THEN Ignored
    ELSE Unidentified

\* From<KeyModifiers> for Mods (crossterm)
CrosstermMods(from, macos) ==
    LET m1 == IF "CONTROL" \in from THEN bitor(NONE, CTRL) ELSE NONE
        m2 == IF from \cap {"ALT", "META"} # {} THEN bitor(m1, ALT) ELSE m1
        m3 == IF "SUPER" \in from THEN bitor(m2, SUPER(macos)) ELSE m2
    IN  IF "SHIFT" \in from THEN bitor(m3, SHIFT) ELSE m3

\* From<&KeyEvent> for KeyInput (crossterm)
CrosstermKeyEvent(event, macos) ==
    IF event.kind = "Release" THEN KeyInputFrom(Ignored)
    ELSE KeyInputNew(CrosstermKey(event.code), CrosstermMods(event.modifiers, macos))

\* From<&Event> for KeyInput (crossterm)
CrosstermEvent(event, macos) ==
    IF event.tag = "Key" THEN CrosstermKeyEvent(event.event, macos)
    ELSE KeyInputFrom(Ignored)

\* From<KeyCode> for Key (termwiz)
TermwizKey(code) ==
    IF code.tag = "Char" THEN Char(code.ch)
    ELSE IF code.tag \in {"Hyper", "Super", "Meta", "Control", "LeftControl", "RightControl",
                          "Shift", "LeftShift", "RightShift", "Alt", "LeftAlt", "RightAlt",
                          "LeftWindows", "RightWindows"} THEN Ignored
    ELSE IF code.tag \in {"Enter", "Backspace"} THEN Named(code.tag)
    ELSE Unidentified

\* From<Modifiers> for Mods (termwiz)
TermwizMods(mods, macos) ==
    LET m1 == IF mods \cap {"CTRL", "RIGHT_CTRL", "LEFT_CTRL"} # {}
              THEN bitor(NONE, CTRL) ELSE NONE
        m2 == IF mods \cap {"ALT", "RIGHT_ALT", "LEFT_ALT"} # {} THEN bitor(m1, ALT) ELSE m1
        m3 == IF "SUPER" \in mods THEN bitor(m2, SUPER(macos)) ELSE m2
    IN  IF mods \cap {"SHIFT", "LEFT_SHIFT", "RIGHT_SHIFT"} # {} THEN bitor(m3, SHIFT) ELSE m3

\* From<&KeyEvent> for KeyInput (termwiz)
TermwizKeyEvent(event, macos) ==
    KeyInputNew(TermwizKey(event.key), TermwizMods(event.modifiers, macos))

\* From<&InputEvent> for KeyInput (termwiz)
TermwizInputEvent(event, macos) ==
    IF event.tag = "Key" THEN TermwizKeyEvent(event.event, macos)
    ELSE KeyInputFrom(Ignored)

\* From<&WinitKey> for Key, and From<&IcedKey> for Key, which has the same
\* rows: a Named key or a Character with its string
WinitKey(key) ==
    IF key.tag = "Character"
    THEN IF Len(key.ch) = 1 THEN Char(key.ch) ELSE Unidentified
    ELSE IF key.tag = "Space" THEN Char(" ")
    ELSE IF key.tag \in {"Enter", "Backspace"} THEN Named(key.tag)
    ELSE IF key.tag \in {"Alt", "Control", "Shift", "Super", "Hyper", "Meta", "Symbol"}
         THEN Ignored
    ELSE Unidentified

IcedKey(key) == WinitKey(key)

\* From<&ModifiersState> for Mods (winit)
WinitMods(state, macos) ==
    LET m1 == IF "CONTROL" \in state THEN bitor(NONE, CTRL) ELSE NONE
        m2 == IF "ALT" \in state THEN bitor(m1, ALT) ELSE m1
        m3 == IF "SUPER" \in state THEN bitor(m2, SUPER(macos)) ELSE m2
    IN  IF "SHIFT" \in state THEN bitor(m3, SHIFT) ELSE m3

\* From<&Modifiers> for Mods (iced)
IcedMods(from, macos) ==
    LET m1 == IF "CTRL" \in from THEN bitor(NONE, CTRL) ELSE NONE
        m2 == IF "ALT" \in from THEN bitor(m1, ALT) ELSE m1
        m3 == IF "LOGO" \in from THEN bitor(m2, SUPER(macos)) ELSE m2
    IN  IF "SHIFT" \in from THEN bitor(m3, SHIFT) ELSE m3

\* What to_key_input returns and the modifiers it leaves in the converter
Converted(input, mods) == [input |-> input, mods |-> mods]

\* WinitEvent for KeyEvent: conv is the converter's mods
WinitKeyEvent(event, conv) ==
    Converted(KeyInputNew(WinitKey(event.logical_key), conv), conv)

\* WinitEvent for WindowEvent
WinitWindowEvent(event, conv, macos) ==
    IF event.tag = "ModifiersChanged"
    THEN Converted(KeyInputFrom(Ignored), WinitMods(event.state, macos))
    ELSE IF event.tag = "KeyboardInput" /\ event.event.state = "Pressed"
    THEN WinitKeyEvent(event.event, conv)
    ELSE Converted(KeyInputFrom(Ignored), conv)

\* From<&KeyEvent> for KeyInput (iced)
IcedKeyEvent(event, macos) ==
    IF event.tag = "KeyPressed"
    THEN KeyInputNew(IcedKey(event.modified_key), IcedMods(event.modifiers, macos))
    ELSE KeyInputFrom(Ignored)

-----------------------------------------------------------------------------
(* KeySeq::match_to *)

\* Slip: inputs that stop inside the sequence count as a match
RECURSIVE MatchFromEager(_, _, _)
MatchFromEager(seq, inputs, i) ==
    IF i <= Len(seq) /\ i <= Len(inputs)
    THEN IF seq[i] # inputs[i] THEN "Unmatch" ELSE MatchFromEager(seq, inputs, i + 1)
    ELSE IF i <= Len(inputs) THEN "Unmatch"
    ELSE "Matched"

match_to_eager(seq, inputs) == MatchFromEager(seq, inputs, 1)

\* Slip: inputs that run past the end of the sequence count as a match
RECURSIVE MatchFromOverrun(_, _, _)
MatchFromOverrun(seq, inputs, i) ==
    IF i <= Len(seq) /\ i <= Len(inputs)
    THEN IF seq[i] # inputs[i] THEN "Unmatch" ELSE MatchFromOverrun(seq, inputs, i + 1)
    ELSE IF i <= Len(seq) THEN "Prefix"
    ELSE "Matched"

match_to_overrun(seq, inputs) == MatchFromOverrun(seq, inputs, 1)

\* KeySeq::match_to: walk the sequence and the inputs together from index i
RECURSIVE MatchFrom(_, _, _)
MatchFrom(seq, inputs, i) ==
    IF i <= Len(seq) /\ i <= Len(inputs)
    THEN IF seq[i] # inputs[i] THEN "Unmatch" ELSE MatchFrom(seq, inputs, i + 1)
    ELSE IF i <= Len(seq) THEN "Prefix"
    ELSE IF i <= Len(inputs) THEN "Unmatch"
    ELSE "Matched"

\* Slip: an input holding more modifiers than the binding asks for is taken
RECURSIVE MatchFromModsHeld(_, _, _)
MatchFromModsHeld(seq, inputs, i) ==
    IF i <= Len(seq) /\ i <= Len(inputs)
    THEN IF \/ seq[i].key # inputs[i].key
            \/ \E bit \in {CTRL, CMD, ALT, WIN, SHIFT} :
                   contains(seq[i].mods, bit) /\ ~contains(inputs[i].mods, bit)
         THEN "Unmatch"
         ELSE MatchFromModsHeld(seq, inputs, i + 1)
    ELSE IF i <= Len(seq) THEN "Prefix"
    ELSE IF i <= Len(inputs) THEN "Unmatch"
    ELSE "Matched"

match_to_mods_held(seq, inputs) == MatchFromModsHeld(seq, inputs, 1)

\* Slip: no inputs at all never count as the beginning of a sequence
match_to_nonempty(seq, inputs) ==
    IF inputs = <<>> THEN "Unmatch" ELSE MatchFrom(seq, inputs, 1)

match_to(seq, inputs) == MatchFrom(seq, inputs, 1)

-----------------------------------------------------------------------------
(* Keybind and Keybinds: src/src/keybind.rs *)

Keybind(seq, action) == [seq |-> seq, action |-> action]

\* Found::Keybind(&binds[idx]) | Found::Ongoing | Found::None
FoundKeybind(idx) == [kind |-> "Keybind", idx |-> idx]
FoundOngoing == [kind |-> "Ongoing", idx |-> 0]
FoundNone == [kind |-> "None", idx |-> 0]

\* Slip: a binding that may still match makes the search wait for more input
RECURSIVE FindWaitingFrom(_, _, _, _)
FindWaitingFrom(table, inputs, i, matched) ==
    IF i > Len(table)
    THEN IF matched = 0 THEN FoundNone ELSE FoundKeybind(matched)
    ELSE LET m == match_to(table[i].seq, inputs) IN
         IF m = "Prefix" THEN FoundOngoing
         ELSE IF m = "Matched" /\ matched = 0
              THEN FindWaitingFrom(table, inputs, i + 1, i)
         ELSE FindWaitingFrom(table, inputs, i + 1, matched)

find_waiting(table, inputs) == FindWaitingFrom(table, inputs, 1, 0)

\* Slip: the search does not stop at the first match, the last one wins
RECURSIVE FindLastFrom(_, _, _, _)
FindLastFrom(table, inputs, i, res) ==
    IF i > Len(table) THEN res
    ELSE LET m == match_to(table[i].seq, inputs) IN
         IF m = "Matched" THEN FindLastFrom(table, inputs, i + 1, FoundKeybind(i))
         ELSE IF m = "Prefix" /\ res.kind = "None"
              THEN FindLastFrom(table, inputs, i + 1, FoundOngoing)
         ELSE FindLastFrom(table, inputs, i + 1, res)

find_last(table, inputs) == FindLastFrom(table, inputs, 1, FoundNone)

\* Slip: a binding that the inputs only begin is not remembered
RECURSIVE FindExactFrom(_, _, _)
FindExactFrom(table, inputs, i) ==
    IF i > Len(table) THEN FoundNone
    ELSE IF match_to(table[i].seq, inputs) = "Matched" THEN FoundKeybind(i)
    ELSE FindExactFrom(table, inputs, i + 1)

find_exact(table, inputs) == FindExactFrom(table, inputs, 1)

\* Keybinds::find: the loop over the table from index i
RECURSIVE FindFrom(_, _, _, _)
FindFrom(table, inputs, i, saw_prefix) ==
    IF i > Len(table)
    THEN IF saw_prefix THEN FoundOngoing ELSE FoundNone
    ELSE LET m == match_to(table[i].seq, inputs) IN
         IF m = "Matched" THEN FoundKeybind(i)
         ELSE IF m = "Prefix" THEN FindFrom(table, inputs, i + 1, TRUE)
         ELSE FindFrom(table, inputs, i + 1, saw_prefix)

\* Slip: a binding without inputs is the answer when nothing else is found
find_or_empty(table, inputs) ==
    LET found == FindFrom(table, inputs, 1, FALSE)
        empty == { i \in 1 .. Len(table) : table[i].seq = <<>> }
    IN  IF found.kind = "None" /\ empty # {}
        THEN FoundKeybind(CHOOSE i \in empty : \A j \in empty : i <= j)
        ELSE found

find(table, inputs) == FindFrom(table, inputs, 1, FALSE)

-----------------------------------------------------------------------------
(* KeybindDispatcher *)

DEFAULT_TIMEOUT == 1

\* Option<Instant>
NoInstant == [some |-> FALSE, t |-> 0]
SomeInstant(t) == [some |-> TRUE, t |-> t]

is_ongoing == last_input.some

\* What an API call returned
RetUnit == [kind |-> "Unit", action |-> 0, err |-> NoErr]
RetNone == [kind |-> "None", action |-> 0, err |-> NoErr]
RetSome(action) == [kind |-> "Some", action |-> action, err |-> NoErr]
RetOk == [kind |-> "Ok", action |-> 0, err |-> NoErr]
RetErr(e) == [kind |-> "Err", action |-> 0, err |-> e]

\* The API call made last
Call(name) == [name |-> name, input |-> KeyInput(Named(""), NONE), str |-> "", d |-> 0]
CallDispatch(input) == [name |-> "dispatch", input |-> input, str |-> "", d |-> 0]
CallBind(str) ==
    [name |-> "bind", input |-> KeyInput(Named(""), NONE), str |-> str, d |-> 0]
CallSetTimeout(d) ==
    [name |-> "set_timeout", input |-> KeyInput(Named(""), NONE), str |-> "", d |-> d]

\* A function of the library applied to values of the caller: its name, the
\* tuple of its arguments and its result
Apply(fn, args, out) == [fn |-> fn, args |-> args, out |-> out]
NoApply == Apply("", <<>>, <<>>)

-----------------------------------------------------------------------------
(* The values the environment passes to the API *)

\* The action of a binding is opaque to the library (A is a type parameter
\* without bounds): the caller gives the k-th binding it registers the action k,
\* so that a returned action names the binding it came from.
NextAction == Len(binds) + 1

KeyA == Char("a")
KeyB == Char("b")

\* inputs given to dispatch, built by KeyInput::new
Inputs ==
    { KeyInputNew(k, m) : k \in {KeyA, KeyB, Ignored}, m \in {NONE, CTRL} }
        \cup {KeyInputFrom(Unidentified)}

\* key sequences given to push, built by KeySeq::default / From / FromIterator
PushSeqs ==
    { <<>>,
      <<KeyInputFrom(KeyA)>>,
      <<KeyInputFrom(KeyA), KeyInputFrom(KeyB)>>,
      <<KeyInputFrom(KeyA), KeyInputFrom(Unidentified), KeyInputFrom(KeyA)>>,
      <<KeyInputFrom(KeyA), KeyInputFrom(Ignored)>> }

\* strings given to bind
BindStrings == {"a b", " Ctrl+a\t", "Foo+x", "Shift+a", ""}

\* durations given to set_timeout
Timeouts == {1, 2}

-----------------------------------------------------------------------------
(* Construction: KeybindDispatcher::default(), i.e. new(Keybinds::default()) *)

Init ==
    /\ binds = <<>>
    /\ ongoing = <<>>
    /\ last_input = NoInstant
    /\ timeout = DEFAULT_TIMEOUT
    /\ now = 0
    /\ op = Call("new")
    /\ ret = RetUnit
    /\ probe = <<>>
    /\ expired = FALSE
    /\ entry = NoInstant
    /\ since = 0
    /\ target_macos \in BOOLEAN
    /\ lib = NoApply

\* The clock advances between API calls
\* Slip: a match expires by itself once its timeout has passed
TickExpires ==
    /\ now < MaxTime
    /\ now' = now + 1
    /\ IF last_input.some /\ now + 1 - last_input.t > timeout
       THEN ongoing' = <<>> /\ last_input' = NoInstant /\ since' = 0
       ELSE /\ since' = (IF ongoing = <<>> THEN 0 ELSE since)
            /\ UNCHANGED <<ongoing, last_input>>
    /\ UNCHANGED <<binds, timeout, op, ret, probe, expired, entry, target_macos, lib>>

Tick ==
    /\ now < MaxTime
    /\ now' = now + 1
    /\ since' = IF ongoing = <<>> THEN 0 ELSE since
    /\ UNCHANGED <<binds, ongoing, last_input, timeout, op, ret, probe, expired,
                   entry, target_macos, lib>>

\* Slip: reset forgets the timer and keeps the buffered inputs
ResetTimerOnly ==
    /\ last_input' = NoInstant
    /\ op' = Call("reset")
    /\ ret' = RetUnit
    /\ probe' = <<>>
    /\ expired' = FALSE
    /\ entry' = last_input
    /\ since' = IF ongoing = <<>> THEN 0 ELSE since
    /\ UNCHANGED <<binds, ongoing, timeout, now, target_macos, lib>>

\* KeybindDispatcher::reset
Reset ==
    /\ ongoing' = <<>>
    /\ last_input' = NoInstant
    /\ op' = Call("reset")
    /\ ret' = RetUnit
    /\ probe' = <<>>
    /\ expired' = FALSE
    /\ entry' = last_input
    /\ since' = 0
    /\ UNCHANGED <<binds, timeout, now, target_macos, lib>>

\* Slip: push without the reset
PushNoReset(bind) ==
    /\ Len(binds) < MaxBinds
    /\ binds' = Append(binds, bind)
    /\ op' = Call("push")
    /\ ret' = RetUnit
    /\ probe' = <<>>
    /\ expired' = FALSE
    /\ entry' = last_input
    /\ since' = IF ongoing = <<>> THEN 0 ELSE since
    /\ UNCHANGED <<ongoing, last_input, timeout, now, target_macos, lib>>

\* KeybindDispatcher::push: append, then reset()
Push(bind) ==
    /\ Len(binds) < MaxBinds
    /\ binds' = Append(binds, bind)
    /\ ongoing' = <<>>
    /\ last_input' = NoInstant
    /\ op' = Call("push")
    /\ ret' = RetUnit
    /\ probe' = <<>>
    /\ expired' = FALSE
    /\ entry' = last_input
    /\ since' = 0
    /\ UNCHANGED <<timeout, now, target_macos, lib>>

\* key_sequence.parse() for the strings given to bind, on either target
BindParse ==
    [m \in BOOLEAN |-> [str \in BindStrings |-> ParseKeySeq(str, m)]]

\* Slip: the matching is started over before the string is parsed
BindResetsFirst(str, action) ==
    LET seq == BindParse[target_macos][str] IN
    /\ seq.ok => Len(binds) < MaxBinds
    /\ op' = CallBind(str)
    /\ probe' = <<>>
    /\ expired' = FALSE
    /\ entry' = last_input
    /\ since' = 0
    /\ ongoing' = <<>>
    /\ last_input' = NoInstant
    /\ IF ~seq.ok
       THEN ret' = RetErr(seq.err) /\ UNCHANGED binds
       ELSE binds' = Append(binds, Keybind(seq.val, action)) /\ ret' = RetOk
    /\ UNCHANGED <<timeout, now, target_macos, lib>>

\* Slip: the binding is pushed before the parse result is looked at
BindPushFirst(str, action) ==
    LET seq == BindParse[target_macos][str] IN
    /\ Len(binds) < MaxBinds
    /\ op' = CallBind(str)
    /\ probe' = <<>>
    /\ expired' = FALSE
    /\ entry' = last_input
    /\ since' = 0
    /\ binds' = Append(binds, Keybind(seq.val, action))
    /\ ongoing' = <<>>
    /\ last_input' = NoInstant
    /\ ret' = IF seq.ok THEN RetOk ELSE RetErr(seq.err)
    /\ UNCHANGED <<timeout, now, target_macos, lib>>

\* KeybindDispatcher::bind: parse, then return the error or push
Bind(str, action) ==
    LET seq == BindParse[target_macos][str] IN
    /\ seq.ok => Len(binds) < MaxBinds
    /\ op' = CallBind(str)
    /\ probe' = <<>>
    /\ expired' = FALSE
    /\ entry' = last_input
    /\ since' = IF seq.ok \/ ongoing = <<>> THEN 0 ELSE since
    /\ IF ~seq.ok
       THEN /\ ret' = RetErr(seq.err)
            /\ UNCHANGED <<binds, ongoing, last_input>>
       ELSE /\ binds' = Append(binds, Keybind(seq.val, action))
            /\ ongoing' = <<>>
            /\ last_input' = NoInstant
            /\ ret' = RetOk
    /\ UNCHANGED <<timeout, now, target_macos, lib>>

\* KeybindDispatcher::handle_timeout: is_timeout, and the buffer and the timer
\* it leaves when the clock reads t
\* Slip: the match is given up as soon as the timeout is reached
is_timeout_reached(last, limit, t) == last.some /\ t - last.t >= limit

is_timeout(last, limit, t) == last.some /\ t - last.t > limit

\* Slip: the timer runs from the first input of the match, not from the last
handle_timeout_first(buf, last, limit, t) ==
    [ongoing |-> IF is_timeout(last, limit, t) THEN <<>> ELSE buf,
     last_input |-> IF last.some /\ ~is_timeout(last, limit, t) THEN last
                    ELSE SomeInstant(t)]

\* Slip: the buffer survives the timeout
handle_timeout_keep(buf, last, limit, t) ==
    [ongoing |-> buf, last_input |-> SomeInstant(t)]

handle_timeout(buf, last, limit, t) ==
    [ongoing |-> IF is_timeout(last, limit, t) THEN <<>> ELSE buf,
     last_input |-> SomeInstant(t)]

\* Slip: Key::Ignored is not skipped
DispatchIgnoredToo(input) ==
    LET h == handle_timeout(ongoing, last_input, timeout, now)
        buf == Append(h.ongoing, input)
        found == find(binds, buf)
    IN  /\ op' = CallDispatch(input)
        /\ entry' = last_input
        /\ probe' = buf
        /\ since' = IF h.ongoing = <<>> THEN now ELSE since
        /\ expired' = is_timeout(last_input, timeout, now)
        /\ IF found.kind = "Keybind"
           THEN /\ ongoing' = <<>>
                /\ last_input' = NoInstant
                /\ ret' = RetSome(binds[found.idx].action)
           ELSE IF found.kind = "Ongoing"
           THEN /\ ongoing' = buf
                /\ last_input' = h.last_input
                /\ ret' = RetNone
           ELSE /\ ongoing' = <<>>
                /\ last_input' = NoInstant
                /\ ret' = RetNone
        /\ UNCHANGED <<binds, timeout, now, target_macos, lib>>

\* Slip: a lookup that finds nothing leaves the buffer and the timer
DispatchKeepOnNone(input) ==
    /\ op' = CallDispatch(input)
    /\ entry' = last_input
    /\ IF input.key = Ignored
       THEN /\ ret' = RetNone
            /\ probe' = <<>>
            /\ expired' = FALSE
            /\ UNCHANGED <<ongoing, last_input, since>>
       ELSE LET h == handle_timeout(ongoing, last_input, timeout, now)
                buf == Append(h.ongoing, input)
                found == find(binds, buf)
            IN  /\ probe' = buf
                /\ since' = IF h.ongoing = <<>> THEN now ELSE since
                /\ expired' = is_timeout(last_input, timeout, now)
                /\ IF found.kind = "Keybind"
                   THEN /\ ongoing' = <<>>
                        /\ last_input' = NoInstant
                        /\ ret' = RetSome(binds[found.idx].action)
                   ELSE /\ ongoing' = buf
                        /\ last_input' = h.last_input
                        /\ ret' = RetNone
    /\ UNCHANGED <<binds, timeout, now, target_macos, lib>>

\* Slip: a match clears the buffer and leaves the timer
DispatchTimerStays(input) ==
    /\ op' = CallDispatch(input)
    /\ entry' = last_input
    /\ IF input.key = Ignored
       THEN /\ ret' = RetNone
            /\ probe' = <<>>
            /\ expired' = FALSE
            /\ UNCHANGED <<ongoing, last_input, since>>
       ELSE LET h == handle_timeout(ongoing, last_input, timeout, now)
                buf == Append(h.ongoing, input)
                found == find(binds, buf)
            IN  /\ probe' = buf
                /\ since' = IF h.ongoing = <<>> THEN now ELSE since
                /\ expired' = is_timeout(last_input, timeout, now)
                /\ IF found.kind = "Keybind"
                   THEN /\ ongoing' = <<>>
                        /\ last_input' = h.last_input
                        /\ ret' = RetSome(binds[found.idx].action)
                   ELSE IF found.kind = "Ongoing"
                   THEN /\ ongoing' = buf
                        /\ last_input' = h.last_input
                        /\ ret' = RetNone
                   ELSE /\ ongoing' = <<>>
                        /\ last_input' = NoInstant
                        /\ ret' = RetNone
    /\ UNCHANGED <<binds, timeout, now, target_macos, lib>>

\* Slip: a binding is taken out of the table when it fires
DispatchTakesBinding(input) ==
    /\ op' = CallDispatch(input)
    /\ entry' = last_input
    /\ IF input.key = Ignored
       THEN /\ ret' = RetNone
            /\ probe' = <<>>
            /\ expired' = FALSE
            /\ UNCHANGED <<binds, ongoing, last_input, since>>
       ELSE LET h == handle_timeout(ongoing, last_input, timeout, now)
                buf == Append(h.ongoing, input)
                found == find(binds, buf)
            IN  /\ probe' = buf
                /\ since' = IF h.ongoing = <<>> THEN now ELSE since
                /\ expired' = is_timeout(last_input, timeout, now)
                /\ IF found.kind = "Keybind"
                   THEN /\ ongoing' = <<>>
                        /\ last_input' = NoInstant
                        /\ ret' = RetSome(binds[found.idx].action)
                        /\ binds' = SubSeq(binds, 1, found.idx - 1)
                                        \o SubSeq(binds, found.idx + 1, Len(binds))
                   ELSE IF found.kind = "Ongoing"
                   THEN /\ ongoing' = buf
                        /\ last_input' = h.last_input
                        /\ ret' = RetNone
                        /\ UNCHANGED binds
                   ELSE /\ ongoing' = <<>>
                        /\ last_input' = NoInstant
                        /\ ret' = RetNone
                        /\ UNCHANGED binds
    /\ UNCHANGED <<timeout, now, target_macos, lib>>

\* Slip: a match is kept in the buffer like an ongoing one
DispatchBuffersMatch(input) ==
    /\ op' = CallDispatch(input)
    /\ entry' = last_input
    /\ IF input.key = Ignored
       THEN /\ ret' = RetNone
            /\ probe' = <<>>
            /\ expired' = FALSE
            /\ UNCHANGED <<ongoing, last_input, since>>
       ELSE LET h == handle_timeout(ongoing, last_input, timeout, now)
                buf == Append(h.ongoing, input)
                found == find(binds, buf)
            IN  /\ probe' = buf
                /\ since' = IF h.ongoing = <<>> THEN now ELSE since
                /\ expired' = is_timeout(last_input, timeout, now)
                /\ IF found.kind = "Keybind"
                   THEN /\ ongoing' = buf
                        /\ last_input' = h.last_input
                        /\ ret' = RetSome(binds[found.idx].action)
                   ELSE IF found.kind = "Ongoing"
                   THEN /\ ongoing' = buf
                        /\ last_input' = h.last_input
                        /\ ret' = RetNone
                   ELSE /\ ongoing' = <<>>
                        /\ last_input' = NoInstant
                        /\ ret' = RetNone
    /\ UNCHANGED <<binds, timeout, now, target_macos, lib>>

\* Slip: an input that breaks a match is looked up again on its own
DispatchRetries(input) ==
    /\ op' = CallDispatch(input)
    /\ entry' = last_input
    /\ IF input.key = Ignored
       THEN /\ ret' = RetNone
            /\ probe' = <<>>
            /\ expired' = FALSE
            /\ UNCHANGED <<ongoing, last_input, since>>
       ELSE LET h == handle_timeout(ongoing, last_input, timeout, now)
                buf == Append(h.ongoing, input)
                first == find(binds, buf)
                found == IF first.kind = "None" THEN find(binds, <<input>>) ELSE first
            IN  /\ probe' = buf
                /\ since' = IF h.ongoing = <<>> \/ first.kind = "None" THEN now ELSE since
                /\ expired' = is_timeout(last_input, timeout, now)
                /\ IF found.kind = "Keybind"
                   THEN /\ ongoing' = <<>>
                        /\ last_input' = NoInstant
                        /\ ret' = RetSome(binds[found.idx].action)
                   ELSE IF found.kind = "Ongoing"
                   THEN /\ ongoing' = IF first.kind = "None" THEN <<input>> ELSE buf
                        /\ last_input' = h.last_input
                        /\ ret' = RetNone
                   ELSE /\ ongoing' = <<>>
                        /\ last_input' = NoInstant
                        /\ ret' = RetNone
    /\ UNCHANGED <<binds, timeout, now, target_macos, lib>>

\* Slip: Key::Unidentified is skipped like Key::Ignored
DispatchSkipsUnidentified(input) ==
    /\ op' = CallDispatch(input)
    /\ entry' = last_input
    /\ IF input.key \in {Ignored, Unidentified}
       THEN /\ ret' = RetNone
            /\ probe' = <<>>
            /\ expired' = FALSE
            /\ UNCHANGED <<ongoing, last_input, since>>
       ELSE LET h == handle_timeout(ongoing, last_input, timeout, now)
                buf == Append(h.ongoing, input)
                found == find(binds, buf)
            IN  /\ probe' = buf
                /\ since' = IF h.ongoing = <<>> THEN now ELSE since
                /\ expired' = is_timeout(last_input, timeout, now)
                /\ IF found.kind = "Keybind"
                   THEN /\ ongoing' = <<>>
                        /\ last_input' = NoInstant
                        /\ ret' = RetSome(binds[found.idx].action)
                   ELSE IF found.kind = "Ongoing"
                   THEN /\ ongoing' = buf
                        /\ last_input' = h.last_input
                        /\ ret' = RetNone
                   ELSE /\ ongoing' = <<>>
                        /\ last_input' = NoInstant
                        /\ ret' = RetNone
    /\ UNCHANGED <<binds, timeout, now, target_macos, lib>>

\* KeybindDispatcher::dispatch
Dispatch(input) ==
    /\ op' = CallDispatch(input)
    /\ entry' = last_input
    /\ IF input.key = Ignored
       THEN /\ ret' = RetNone
            /\ probe' = <<>>
            /\ expired' = FALSE
            /\ UNCHANGED <<ongoing, last_input, since>>
       ELSE LET h == handle_timeout(ongoing, last_input, timeout, now)
                buf == Append(h.ongoing, input)
                found == find(binds, buf)
            IN  /\ probe' = buf
                /\ since' = IF h.ongoing = <<>> THEN now ELSE since
                /\ expired' = is_timeout(last_input, timeout, now)
                /\ IF found.kind = "Keybind"
                   THEN /\ ongoing' = <<>>
                        /\ last_input' = NoInstant
                        /\ ret' = RetSome(binds[found.idx].action)
                   ELSE IF found.kind = "Ongoing"
                   THEN /\ ongoing' = buf
                        /\ last_input' = h.last_input
                        /\ ret' = RetNone
                   ELSE /\ ongoing' = <<>>
                        /\ last_input' = NoInstant
                        /\ ret' = RetNone
    /\ UNCHANGED <<binds, timeout, now, target_macos, lib>>

\* Slip: a new timeout starts the matching over
SetTimeoutResets(d) ==
    /\ timeout' = d
    /\ ongoing' = <<>>
    /\ last_input' = NoInstant
    /\ op' = CallSetTimeout(d)
    /\ ret' = RetUnit
    /\ probe' = <<>>
    /\ expired' = FALSE
    /\ entry' = last_input
    /\ since' = 0
    /\ UNCHANGED <<binds, now, target_macos, lib>>

\* KeybindDispatcher::set_timeout
SetTimeout(d) ==
    /\ timeout' = d
    /\ op' = CallSetTimeout(d)
    /\ ret' = RetUnit
    /\ probe' = <<>>
    /\ expired' = FALSE
    /\ entry' = last_input
    /\ since' = IF ongoing = <<>> THEN 0 ELSE since
    /\ UNCHANGED <<binds, ongoing, last_input, now, target_macos, lib>>

Next ==
    \/ Tick
    \/ Reset
    \/ \E seq \in PushSeqs : Push(Keybind(seq, NextAction))
    \/ \E str \in BindStrings : Bind(str, NextAction)
    \/ \E input \in Inputs : Dispatch(input)
    \/ \E d \in Timeouts : SetTimeout(d)

Spec == Init /\ [][Next]_vars

-----------------------------------------------------------------------------
(* The functions of the library applied directly by the caller, to values   *)
(* that are not in a dispatcher.  A step applies one function to values the *)
(* caller has made and records the application in lib; the functions keep   *)
(* no state, so the record is dropped before the next application.          *)

AtHand == lib.fn # ""

SeqsUpTo(S, n) == UNION { [1 .. k -> S] : k \in 0 .. n }

\* key inputs the caller builds sequences and slices from
LibInputs == {KeyInputFrom(KeyA), KeyInputFrom(KeyB), KeyInputNew(KeyA, CTRL)}

\* sequences and slices given to match_to
Slices == SeqsUpTo(LibInputs, MaxLen)

\* tables given to find: the k-th binding has the action k; the slices looked
\* up may be longer than every sequence of the table
TableInputs == {KeyInputFrom(KeyA), KeyInputFrom(KeyB)}
TableSeqs == SeqsUpTo(TableInputs, MaxSeqLen)
Tables ==
    { [k \in 1 .. Len(seqs) |-> Keybind(seqs[k], k)] : seqs \in SeqsUpTo(TableSeqs, MaxBinds) }
FindSlices == SeqsUpTo(TableInputs, MaxSeqLen + 1)

\* strings given to the parsers: every spelling Mods::from_str accepts, with
\* keys with and without a name; two modifiers; two key inputs; and strings
\* that are empty, blank, cut short or misspelt
ModSpellings ==
    { "Control", "control", "CONTROL", "Ctrl", "ctrl", "CTRL",
      "Command", "command", "COMMAND", "Cmd", "cmd", "CMD",
      "Mod", "mod", "MOD",
      "Alt", "alt", "ALT", "Option", "option", "OPTION",
      "Super", "super", "SUPER",
      "Shift", "shift", "SHIFT" }

\* strings without anything but ASCII whitespace
Blanks == {"", " ", "\t", "\n", "\f", "\r", "  ", " \t\r\n"}

OddStrings ==
    { "+", "a+", "+a", "Ctrl+", "Ctrl+ ", " +a", "Foo+a", "Ctrl+Foo",
      "Win+a", "cTRL+a", "Ctrl+Ctrl+a", "Ctrl++", "Shift++", "aa", "Unidentified",
      "Ignored", "Ctrl+Foo+Bar", "Shift+Foo+a", "Foo+Shift+a", "Bar+Foo+a",
      "Shift+Foo", "Foo+Bar", "+Foo", "Foo+", "Shift+", "Foo++a", "+Foo+a" }

InputStrings ==
    { "a", "X", "Space", "plus", "Enter", "F1", "escape", " a ", "\tUp\r" }
        \cup { m \o "+" \o k : m \in ModSpellings, k \in {"a", "Enter", "Space", "Plus"} }
        \cup { m1 \o "+" \o m2 \o "+" \o k :
                   m1 \in {"Ctrl", "cmd", "ALT", "Super", "Mod", "shift"},
                   m2 \in {"Ctrl", "Cmd", "Option", "super", "Shift"},
                   k \in {"x", "Tab"} }
        \cup { " Ctrl + a ", "Ctrl +a", "Ctrl+ Shift +Enter" }
        \cup { "Ctrl+x", "Ctrl+Alt+Ctrl+x", "alt+ctrl+x", "Shift+Ctrl+Shift+Tab",
               "Alt+Alt+Enter", "Mod+Ctrl+Cmd+x", "Super+Shift+Alt+Cmd+Ctrl+Tab" }
        \cup OddStrings
        \cup Blanks

KeyStrings ==
    { "a", "A", " a ", "+", "Enter", "enter", "ENTER", "eNTER", "Space", "Plus", "F1",
      "f35", "F36", "ESCAPE", "Esc", "Foo", "ab", "Unidentified", "Ignored", "\tUp\r",
      "pageup", "PageUp", "PAGEUP", "Pageup", "pageUp", "sPACE", "pLUS", "eSC", "escapE",
      "uP", "f1", "volumedown", "VolumeDown", "VOLUMEDOWN", "Volumedown", " EnTeR " }
        \cup Blanks

ModStrings ==
    ModSpellings \cup {" Ctrl ", "\tshift\n", "Foo", " Foo ", "Win", "cTRL", "Ctrl+Alt"}
        \cup {"CTrl", "conTROL", "cMD", "coMMand", "mOD", "aLT", "OPtion", "SUper", "sHIFT",
              " ShifT "}
        \cup Blanks

SeqStrings ==
    InputStrings
        \cup { x \o " " \o y : x, y \in {"a", "Ctrl+b", "Super+Enter", "Foo", "Shift+c"} }
        \cup { "a\tb", " a  b ", "a b c", "a\nCtrl+b\r\n", "a +", "a Bar+b Foo+c",
               "Foo+a Ctrl+Bar", "a Shift+b Foo", "Ctrl+Foo Bar+b", "a b Shift+c" }

\* the parses of those strings on either target
SeqParse == [m \in BOOLEAN |-> [str \in SeqStrings |-> ParseKeySeq(str, m)]]

\* the parses of the strings for one key input on either target
InputParse == [m \in BOOLEAN |-> [str \in InputStrings |-> ParseKeyInput(str, m)]]

\* keys and modifier sets given to the constructors of KeyInput
LibKeys ==
    { Char("a"), Char("A"), Char(" "), Char("+"), Named("Enter"), Named("F1"),
      Ignored, Unidentified }
AllMods == 0 .. (2 * SHIFT - 1)

\* items given to the constructors of KeySeq: an array or an iterator has
\* items of one type, keys or key inputs
ItemKeys == {KeyA, Named("Enter")}
Items == ItemKeys \cup LibInputs
ItemLists == SeqsUpTo(ItemKeys, MaxLen) \cup SeqsUpTo(LibInputs, MaxLen)

\* sequences that push, insert and extend are applied to
Receivers == SeqsUpTo(LibInputs, MaxSeqLen)

\* the caller is done with the result
Drop ==
    /\ AtHand
    /\ lib' = NoApply
    /\ UNCHANGED <<dispatcher, target_macos>>

\* seq.match_to(inputs)
MatchTo ==
    /\ ~AtHand
    /\ \E seq \in Slices, inputs \in Slices :
           lib' = Apply("match_to", <<seq, inputs>>, match_to(seq, inputs))
    /\ UNCHANGED <<dispatcher, target_macos>>

\* table.find(inputs)
Find ==
    /\ ~AtHand
    /\ \E table \in Tables, inputs \in FindSlices :
           lib' = Apply("find", <<table, inputs>>, find(table, inputs))
    /\ UNCHANGED <<dispatcher, target_macos>>

\* str.parse::<KeySeq>()
ParseSeq ==
    /\ ~AtHand
    /\ \E str \in SeqStrings :
           lib' = Apply("KeySeq::from_str", <<str>>, SeqParse[target_macos][str])
    /\ UNCHANGED <<dispatcher, target_macos>>

\* str.parse::<Key>()
ParseKeyStr ==
    /\ ~AtHand
    /\ \E str \in KeyStrings : lib' = Apply("Key::from_str", <<str>>, ParseKey(str))
    /\ UNCHANGED <<dispatcher, target_macos>>

\* str.parse::<Mods>()
ParseModsStr ==
    /\ ~AtHand
    /\ \E str \in ModStrings :
           lib' = Apply("Mods::from_str", <<str>>, ParseMods(str, target_macos))
    /\ UNCHANGED <<dispatcher, target_macos>>

\* str.parse::<KeyInput>()
ParseInput ==
    /\ ~AtHand
    /\ \E str \in InputStrings :
           lib' = Apply("KeyInput::from_str", <<str>>, InputParse[target_macos][str])
    /\ UNCHANGED <<dispatcher, target_macos>>

\* KeyInput::new(key, mods)
NewInput ==
    /\ ~AtHand
    /\ \E key \in LibKeys, mods \in AllMods :
           lib' = Apply("KeyInput::new", <<key, mods>>, KeyInputNew(key, mods))
    /\ UNCHANGED <<dispatcher, target_macos>>

\* KeyInput::from(key)
FromKey ==
    /\ ~AtHand
    /\ \E key \in LibKeys :
           lib' = Apply("KeyInput::from", <<key>>, KeyInputFrom(key))
    /\ UNCHANGED <<dispatcher, target_macos>>

\* KeyInput::arbitrary(u), derived: each field is generated by its own type,
\* the key by the derived Key::arbitrary and the modifiers by Mods::arbitrary,
\* which sets each of the five bits or not
ArbitraryInput ==
    /\ ~AtHand
    /\ \E key \in LibKeys, mods \in AllMods :
           lib' = Apply("KeyInput::arbitrary", <<key, mods>>, KeyInput(key, mods))
    /\ UNCHANGED <<dispatcher, target_macos>>

\* KeySeq::default()
DefaultSeq ==
    /\ ~AtHand
    /\ lib' = Apply("KeySeq::default", <<>>, KeySeqDefault)
    /\ UNCHANGED <<dispatcher, target_macos>>

\* KeySeq::from(item)
SeqFromOne ==
    /\ ~AtHand
    /\ \E item \in Items : lib' = Apply("KeySeq::from", <<item>>, KeySeqFromOne(item))
    /\ UNCHANGED <<dispatcher, target_macos>>

\* KeySeq::from([item; N])
SeqFromArray ==
    /\ ~AtHand
    /\ \E items \in ItemLists :
           lib' = Apply("KeySeq::from_array", <<items>>, KeySeqFromItems(items))
    /\ UNCHANGED <<dispatcher, target_macos>>

\* iter.collect::<KeySeq>()
SeqFromIter ==
    /\ ~AtHand
    /\ \E items \in ItemLists :
           lib' = Apply("KeySeq::from_iter", <<items>>, KeySeqFromItems(items))
    /\ UNCHANGED <<dispatcher, target_macos>>

\* seq.push(input)
SeqPush ==
    /\ ~AtHand
    /\ \E seq \in Receivers, input \in LibInputs :
           lib' = Apply("KeySeq::push", <<seq, input>>, KeySeqPush(seq, input))
    /\ UNCHANGED <<dispatcher, target_macos>>

\* seq.insert(idx, input); an idx past the end panics
SeqInsert ==
    /\ ~AtHand
    /\ \E seq \in Receivers, input \in LibInputs :
           \E idx \in 0 .. Len(seq) :
               lib' = Apply("KeySeq::insert", <<seq, idx, input>>,
                            KeySeqInsert(seq, idx, input))
    /\ UNCHANGED <<dispatcher, target_macos>>

\* seq.extend(iter)
SeqExtend ==
    /\ ~AtHand
    /\ \E seq \in Receivers, items \in ItemLists :
           lib' = Apply("KeySeq::extend", <<seq, items>>, KeySeqExtend(seq, items))
    /\ UNCHANGED <<dispatcher, target_macos>>

\* key.is_named()
IsNamed ==
    /\ ~AtHand
    /\ \E key \in LibKeys : lib' = Apply("Key::is_named", <<key>>, is_named(key))
    /\ UNCHANGED <<dispatcher, target_macos>>

\* key inputs made by KeyInput::new
NewInputs == { KeyInputNew(key, mods) : key \in LibKeys, mods \in AllMods }

\* input.to_string()
DisplayInput ==
    /\ ~AtHand
    /\ \E input \in NewInputs :
           lib' = Apply("KeyInput::to_string", <<input>>, FormatKeyInput(input))
    /\ UNCHANGED <<dispatcher, target_macos>>

\* seq.to_string()
DisplaySeq ==
    /\ ~AtHand
    /\ \E seq \in Receivers :
           lib' = Apply("KeySeq::to_string", <<seq>>, FormatKeySeq(seq))
    /\ UNCHANGED <<dispatcher, target_macos>>

\* seq.serialize(serializer)
SerializeSeq ==
    /\ ~AtHand
    /\ \E seq \in Receivers :
           lib' = Apply("KeySeq::serialize", <<seq>>, SerializeKeySeq(seq))
    /\ UNCHANGED <<dispatcher, target_macos>>

\* input.serialize(serializer)
SerializeInput ==
    /\ ~AtHand
    /\ \E input \in LibInputs :
           lib' = Apply("KeyInput::serialize", <<input>>, SerializeKeyInput(input))
    /\ UNCHANGED <<dispatcher, target_macos>>

\* table.serialize(serializer)
SerializeTable ==
    /\ ~AtHand
    /\ \E table \in Tables :
           lib' = Apply("Keybinds::serialize", <<table>>, SerializeKeybinds(table))
    /\ UNCHANGED <<dispatcher, target_macos>>

\* events given to the conversions
SetsUpTo(S, n) == { T \in SUBSET S : Cardinality(T) <= n }

CrosstermCodes ==
    { [tag |-> "Char", ch |-> "a"], [tag |-> "Char", ch |-> "A"], [tag |-> "Enter", ch |-> ""],
      [tag |-> "Modifier", ch |-> ""], [tag |-> "Null", ch |-> ""],
      [tag |-> "KeypadBegin", ch |-> ""] }
CrosstermKeyEvents ==
    [ code : CrosstermCodes,
      modifiers : SUBSET {"CONTROL", "ALT", "META", "SUPER", "SHIFT"},
      kind : {"Press", "Repeat", "Release"} ]

TermwizCodes ==
    { [tag |-> "Char", ch |-> "a"], [tag |-> "Enter", ch |-> ""],
      [tag |-> "Control", ch |-> ""], [tag |-> "LeftShift", ch |-> ""],
      [tag |-> "Sleep", ch |-> ""] }
TermwizKeyEvents ==
    [ key : TermwizCodes,
      modifiers : SetsUpTo({"CTRL", "LEFT_CTRL", "ALT", "RIGHT_ALT", "SUPER", "SHIFT",
                            "LEFT_SHIFT"}, 2) ]

WinitKeys ==
    { [tag |-> "Character", ch |-> "x"], [tag |-> "Character", ch |-> "foo"],
      [tag |-> "Space", ch |-> ""], [tag |-> "Enter", ch |-> ""],
      [tag |-> "Control", ch |-> ""], [tag |-> "Shift", ch |-> ""],
      [tag |-> "TVInput", ch |-> ""] }
WinitStates == SUBSET {"CONTROL", "ALT", "SUPER", "SHIFT"}
WinitKeyEvents == [ logical_key : WinitKeys, state : {"Pressed", "Released"} ]

IcedKeyEvents ==
    [ tag : {"KeyPressed", "KeyReleased"},
      modified_key : WinitKeys,
      modifiers : SUBSET {"CTRL", "ALT", "LOGO", "SHIFT"} ]

\* KeyInput::from(event), crossterm's KeyEvent or an Event without a key
FromCrossterm ==
    /\ ~AtHand
    /\ \/ \E event \in CrosstermKeyEvents :
              lib' = Apply("crossterm::KeyEvent", <<event>>,
                           CrosstermEvent([tag |-> "Key", event |-> event], target_macos))
       \/ lib' = Apply("crossterm::Event", <<[tag |-> "FocusGained"]>>,
                       CrosstermEvent([tag |-> "FocusGained"], target_macos))
    /\ UNCHANGED <<dispatcher, target_macos>>

\* KeyInput::from(event), termwiz's KeyEvent or an InputEvent without a key
FromTermwiz ==
    /\ ~AtHand
    /\ \/ \E event \in TermwizKeyEvents :
              lib' = Apply("termwiz::KeyEvent", <<event>>,
                           TermwizInputEvent([tag |-> "Key", event |-> event], target_macos))
       \/ lib' = Apply("termwiz::InputEvent", <<[tag |-> "Resized"]>>,
                       TermwizInputEvent([tag |-> "Resized"], target_macos))
    /\ UNCHANGED <<dispatcher, target_macos>>

\* converter.convert(event), winit's KeyEvent given as it is or in a
\* WindowEvent, or a change of the modifiers; the converter holds the
\* modifiers of the change it saw last
ConvertWinit ==
    /\ ~AtHand
    /\ \E held \in WinitStates :
           LET conv == WinitMods(held, target_macos) IN
           \/ \E event \in WinitKeyEvents :
                  \/ lib' = Apply("winit::KeyEvent", <<event, conv>>,
                                  WinitKeyEvent(event, conv))
                  \/ lib' = Apply("winit::WindowEvent", <<event, conv>>,
                                  WinitWindowEvent([tag |-> "KeyboardInput", event |-> event],
                                                   conv, target_macos))
           \/ \E state \in WinitStates :
                  lib' = Apply("winit::ModifiersChanged", <<state, conv>>,
                               WinitWindowEvent([tag |-> "ModifiersChanged", state |-> state],
                                                conv, target_macos))
    /\ UNCHANGED <<dispatcher, target_macos>>

\* KeyInput::from(event), iced's keyboard event
FromIced ==
    /\ ~AtHand
    /\ \E event \in IcedKeyEvents :
           lib' = Apply("iced::KeyEvent", <<event>>, IcedKeyEvent(event, target_macos))
    /\ UNCHANGED <<dispatcher, target_macos>>

LibNext ==
    \/ Drop
    \/ MatchTo
    \/ Find
    \/ ParseKeyStr
    \/ ParseModsStr
    \/ ParseInput
    \/ ParseSeq
    \/ NewInput
    \/ FromKey
    \/ ArbitraryInput
    \/ DefaultSeq
    \/ SeqFromOne
    \/ SeqFromArray
    \/ SeqFromIter
    \/ SeqPush
    \/ SeqInsert
    \/ SeqExtend
    \/ IsNamed
    \/ DisplayInput
    \/ DisplaySeq
    \/ SerializeSeq
    \/ SerializeInput
    \/ SerializeTable
    \/ FromCrossterm
    \/ FromTermwiz
    \/ ConvertWinit
    \/ FromIced

SpecLib == Init /\ [][LibNext]_vars

-----------------------------------------------------------------------------
(* Vocabulary of the properties *)

Registered == 1 .. Len(binds)

IsPrefix(p, s) == Len(p) <= Len(s) /\ SubSeq(s, 1, Len(p)) = p
IsProperPrefix(p, s) == Len(p) < Len(s) /\ SubSeq(s, 1, Len(p)) = p

\* binding i never fires: a registered proper prefix or an earlier identical
\* sequence is found first
Shadowed(i) ==
    \E j \in Registered :
        \/ IsProperPrefix(binds[j].seq, binds[i].seq)
        \/ j < i /\ binds[j].seq = binds[i].seq

SomeEquals(buf) == \E i \in Registered : binds[i].seq = buf
SomeExtends(buf) == \E i \in Registered : IsProperPrefix(buf, binds[i].seq)

\* the first binding in registration order whose sequence is buf
FirstWith(buf) ==
    CHOOSE i \in Registered :
        binds[i].seq = buf /\ \A j \in 1 .. (i - 1) : binds[j].seq # buf

\* the last call was dispatch; it was dispatch and ran the table lookup
Dispatched == op.name = "dispatch"
Looked == op.name = "dispatch" /\ op.input.key # Ignored

\* this step is the API call name (every call records itself in op, and the
\* clock moves only between calls)
Calls(name) == now' = now /\ op'.name = name

-----------------------------------------------------------------------------
C2_FirstMatchWins ==
    \A i, j \in Registered :
        (i < j /\ binds[i].seq = binds[j].seq)
        => /\ (Looked /\ probe = binds[i].seq)
                => ret = RetSome(binds[FirstWith(probe)].action)
           /\ ~(Dispatched /\ ret = RetSome(binds[j].action))

C2_Witness ==
    \E i, j \in Registered :
        /\ i < j
        /\ binds[i].seq = binds[j].seq
        /\ Looked
        /\ probe = binds[i].seq
        /\ ret = RetSome(binds[i].action)
        /\ binds[i].action # binds[j].action

C4_SomeIffExactMatch ==
    Dispatched =>
        /\ ret.kind \in {"Some", "None"}
        /\ Looked => (probe # <<>> /\ probe[Len(probe)] = op.input)
        /\ IF Looked /\ SomeEquals(probe)
           THEN ret = RetSome(binds[FirstWith(probe)].action)
           ELSE ret = RetNone

\* a buffer of two inputs matched a binding that is not the first of the table
C4_Witness ==
    /\ Looked
    /\ Len(probe) = 2
    /\ ret.kind = "Some"
    /\ SomeEquals(probe)
    /\ FirstWith(probe) > 1

(* C5: a non-ignored input dispatched while a match is ongoing and more than *)
(* the timeout after the previous accepted input is looked up alone, as by   *)
(* an idle dispatcher with the same table; otherwise the buffered inputs are *)
(* kept and the input is looked up after them.                               *)
C5_TimeoutAbandons ==
    [][ ( Calls("dispatch") /\ op'.input.key # Ignored )
        => LET fresh == ~last_input.some \/ now - last_input.t > timeout
               buf == IF fresh THEN <<op'.input>> ELSE Append(ongoing, op'.input)
           IN  /\ probe' = buf
               /\ IF SomeEquals(buf)
                  THEN ret' = RetSome(binds[FirstWith(buf)].action) /\ ongoing' = <<>>
                  ELSE IF SomeExtends(buf)
                  THEN ret' = RetNone /\ ongoing' = buf
                  ELSE ret' = RetNone /\ ongoing' = <<>>
      ]_vars

\* an ongoing match has just been abandoned by the timeout
C5_Witness ==
    /\ Looked
    /\ entry.some
    /\ expired
    /\ probe = <<op.input>>

(* C6: dispatch of an input whose key is Ignored, whatever its modifiers,    *)
(* returns None and changes neither the buffer, the timer, the timeout nor   *)
(* the table.                                                                *)
C6_IgnoredIsTransparent ==
    [][ ( Calls("dispatch") /\ op'.input.key = Ignored )
        => ( ret' = RetNone /\ UNCHANGED <<binds, ongoing, last_input, timeout>> )
      ]_vars

\* Ctrl+Ignored was dispatched during a match whose timeout has passed
C6_Witness ==
    /\ Dispatched
    /\ op.input = KeyInput(Ignored, CTRL)
    /\ is_ongoing
    /\ ongoing # <<>>
    /\ now - last_input.t > timeout

(* C7: after a dispatch of a non-ignored input, is_ongoing() holds iff no    *)
(* binding equals the looked-up buffer and some binding extends it; then the *)
(* buffer is kept, and otherwise buffer and timer are both cleared.          *)
C7_OngoingIffPrefix ==
    Looked =>
        LET waiting == ~SomeEquals(probe) /\ SomeExtends(probe) IN
        /\ is_ongoing <=> waiting
        /\ waiting => ongoing = probe
        /\ ~waiting => (ongoing = <<>> /\ last_input = NoInstant)

\* a second input has just broken an ongoing match
C7_Witness ==
    /\ Looked
    /\ Len(probe) = 2
    /\ ~SomeEquals(probe)
    /\ ~SomeExtends(probe)
    /\ ~is_ongoing

(* C8: between API calls the buffer is empty iff the timer is absent.        *)
C8_IdleOrOngoing == (ongoing = <<>>) <=> ~last_input.some

\* a match has just ended in a dispatch that returned an action
C8_Witness ==
    /\ Looked
    /\ entry.some
    /\ ret.kind = "Some"
    /\ ongoing = <<>>
    /\ ~last_input.some

(* C9: push, and bind with a sequence that parses, leave the buffer empty    *)
(* and the timer absent, whatever they were before.                          *)
C9_MutationResets ==
    [][ ( Calls("push") \/ (Calls("bind") /\ ret'.kind = "Ok") )
        => ( /\ Len(binds') = Len(binds) + 1
             /\ ongoing' = <<>>
             /\ last_input' = NoInstant )
      ]_vars

\* push was called while a match was ongoing
C9_Witness ==
    /\ op.name = "push"
    /\ entry.some
    /\ ~is_ongoing
    /\ ongoing = <<>>

(* C10: bind with a string that does not parse returns the parse error and   *)
(* leaves the table as it was; with a string that parses it returns Ok and   *)
(* appends exactly one binding, with the parsed sequence, at the end.        *)
C10_BindFailureKeepsTable ==
    [][ Calls("bind")
        => LET parsed == BindParse[target_macos][op'.str] IN
           IF ~parsed.ok
           THEN ret' = RetErr(parsed.err) /\ binds' = binds
           ELSE /\ ret' = RetOk
                /\ Len(binds') = Len(binds) + 1
                /\ SubSeq(binds', 1, Len(binds)) = binds
                /\ binds'[Len(binds')].seq = parsed.val
      ]_vars

\* bind has just failed on a table that holds a binding
C10_Witness ==
    /\ op.name = "bind"
    /\ ret.kind = "Err"
    /\ ret.err = UnknownModifier("Foo")
    /\ Len(binds) >= 1

(* C11: reset() empties the buffer, forgets the timer and leaves the table  *)
(* and the timeout as they were; the next input dispatched after it is       *)
(* looked up alone, as the first input of a sequence, so it returns an       *)
(* action only if a binding consists of that single input.                   *)
C11_ResetStartsOver ==
    [][ /\ Calls("reset")
            => ( /\ ongoing' = <<>>
                 /\ last_input' = NoInstant
                 /\ UNCHANGED <<binds, timeout>> )
        /\ ( op.name = "reset" /\ Calls("dispatch") /\ op'.input.key # Ignored )
            => ( /\ probe' = <<op'.input>>
                 /\ IF SomeEquals(<<op'.input>>)
                    THEN ret' = RetSome(binds[FirstWith(<<op'.input>>)].action)
                    ELSE ret' = RetNone )
      ]_vars

\* reset was called during an ongoing match, with a changed timeout
C11_Witness ==
    /\ op.name = "reset"
    /\ entry.some
    /\ ongoing = <<>>
    /\ ~is_ongoing
    /\ Len(binds) >= 1
    /\ timeout # DEFAULT_TIMEOUT

(* C12: dispatch leaves the table and the timeout as they were, whatever the *)
(* input and whatever it returns.                                            *)
C12_DispatchKeepsTable ==
    [][ Calls("dispatch") => UNCHANGED <<binds, timeout>> ]_vars

\* a dispatch after the timeout returned the action of a binding, with two
\* bindings in the table and a changed timeout
C12_Witness ==
    /\ Looked
    /\ expired
    /\ ret.kind = "Some"
    /\ Len(binds) = 2
    /\ timeout # DEFAULT_TIMEOUT

-----------------------------------------------------------------------------
(* Properties of the functions of the library *)

Applied(fn) == lib.fn = fn

(* C13: seq.match_to(p) is Matched iff p equals seq, Prefix iff p is a       *)
(* proper prefix of seq (the empty slice included when seq is not empty),    *)
(* and Unmatch in every other case: p differs from seq at some position or   *)
(* is longer than seq.                                                       *)
C13_MatchToClassifies ==
    Applied("match_to") =>
        LET seq == lib.args[1]
            p == lib.args[2]
        IN  /\ lib.out \in {"Matched", "Prefix", "Unmatch"}
            /\ lib.out = "Matched" <=> p = seq
            /\ lib.out = "Prefix" <=> IsProperPrefix(p, seq)
            /\ lib.out = "Unmatch" <=> (p # seq /\ ~IsProperPrefix(p, seq))

\* the slice begins with the whole sequence and goes on after it
C13_Witness ==
    /\ Applied("match_to")
    /\ Len(lib.args[1]) = 2
    /\ IsProperPrefix(lib.args[1], lib.args[2])
    /\ lib.out = "Unmatch"

(* C14: table.find(inputs) is the first binding in registration order whose  *)
(* sequence equals inputs if there is one, else Ongoing if inputs is a       *)
(* proper prefix of the sequence of some binding, else None; on the empty    *)
(* table it is None for every slice.                                         *)
C14_FindFirstExactThenPrefix ==
    Applied("find") =>
        LET table == lib.args[1]
            inputs == lib.args[2]
            equal == { i \in 1 .. Len(table) : table[i].seq = inputs }
            longer == { i \in 1 .. Len(table) : IsProperPrefix(inputs, table[i].seq) }
        IN  /\ lib.out =
                  IF equal # {}
                  THEN FoundKeybind(CHOOSE i \in equal : \A j \in equal : i <= j)
                  ELSE IF longer # {} THEN FoundOngoing
                  ELSE FoundNone
            /\ table = <<>> => lib.out = FoundNone

\* the slice equals the second binding and begins the first one
C14_Witness ==
    /\ Applied("find")
    /\ Len(lib.args[1]) = 2
    /\ IsProperPrefix(lib.args[2], lib.args[1][1].seq)
    /\ lib.args[2] = lib.args[1][2].seq
    /\ lib.out = FoundKeybind(2)

(* C15: a string that parses as a KeySeq parses, after formatting the       *)
(* parsed value, to the same value again.                                    *)
C15_ParseFormatParse ==
    ( Applied("KeySeq::from_str") /\ lib.out.ok )
        => ParseKeySeq(FormatKeySeq(lib.out.val), target_macos) = lib.out

\* Shift is set only on a named key
ShiftOnlyOnNamed(input) == contains(input.mods, SHIFT) => is_named(input.key)

(* C16: KeyInput::new(k, m) has the key k; its modifiers are m without Shift *)
(* when k is not a named key and exactly m when k is a named key; the bits   *)
(* other than Shift are those of m in both cases.                            *)
C16_NewDropsShiftOffUnnamed ==
    Applied("KeyInput::new") =>
        LET k == lib.args[1]
            m == lib.args[2]
        IN  /\ lib.out.key = k
            /\ lib.out.mods % SHIFT = m % SHIFT
            /\ contains(lib.out.mods, SHIFT) <=> (contains(m, SHIFT) /\ is_named(k))
            /\ is_named(k) => lib.out.mods = m
            /\ lib.out.mods < 2 * SHIFT

\* Ctrl+Shift with a key that is not named lost Shift and kept Ctrl
C16_Witness ==
    /\ Applied("KeyInput::new")
    /\ ~is_named(lib.args[1])
    /\ lib.args[2] = CTRL + SHIFT
    /\ lib.out.mods = CTRL

(* C17: every KeyInput made by KeyInput::new, From, parsing (of one key      *)
(* input or of a sequence) or generated by Arbitrary has the Shift bit only  *)
(* if its key is a named key.                                                *)
C17_ShiftOnlyOnNamedKeys ==
    /\ Applied("KeyInput::new") => ShiftOnlyOnNamed(lib.out)
    /\ Applied("KeyInput::from") => ShiftOnlyOnNamed(lib.out)
    /\ ( Applied("KeyInput::from_str") /\ lib.out.ok ) => ShiftOnlyOnNamed(lib.out.val)
    /\ ( Applied("KeySeq::from_str") /\ lib.out.ok )
          => \A i \in 1 .. Len(lib.out.val) : ShiftOnlyOnNamed(lib.out.val[i])
    /\ Applied("KeyInput::arbitrary") => ShiftOnlyOnNamed(lib.out)

(* C18: a key combination all of whose pieces parse, with Shift among the   *)
(* modifiers, fails with ShiftUnavailable(key) when the key is not a named   *)
(* key, and parses to that key with the Shift bit set when the key is a      *)
(* named key, Space and Plus included.                                       *)
C18_ShiftNeedsNamedKey ==
    Applied("KeyInput::from_str") =>
        LET toks == split(trim_ascii(lib.args[1]), "+")
            n == Len(toks)
            key == ParseKey(toks[n])
            mod(i) == ParseMods(toks[i], target_macos)
        IN  ( /\ key.ok
              /\ \A i \in 1 .. (n - 1) : mod(i).ok
              /\ \E i \in 1 .. (n - 1) : mod(i).val = SHIFT )
            => IF is_named(key.val)
               THEN /\ lib.out.ok
                    /\ lib.out.val.key = key.val
                    /\ contains(lib.out.val.mods, SHIFT)
               ELSE lib.out = Err(ShiftUnavailable(key.val))

\* Shift with a second modifier on a key without a name was refused
C18_Witness ==
    /\ Applied("KeyInput::from_str")
    /\ ~lib.out.ok
    /\ lib.out.err = ShiftUnavailable(Char("x"))
    /\ Len(split(trim_ascii(lib.args[1]), "+")) = 3

\* the last application made a KeySeq, and the KeySeq it made
MadeKeySeq ==
    \/ Applied("KeySeq::from_str") /\ lib.out.ok
    \/ lib.fn \in { "KeySeq::default", "KeySeq::from", "KeySeq::from_array",
                     "KeySeq::from_iter", "KeySeq::push", "KeySeq::insert",
                     "KeySeq::extend" }
MadeSeq == IF Applied("KeySeq::from_str") THEN lib.out.val ELSE lib.out

IsBlank(str) == \A i \in 1 .. Len(str) : CharAt(str, i) \in AsciiWhitespace

(* C20: a string that is empty or has only ASCII whitespace fails to parse   *)
(* with EmptyKey as a Key and as a KeyInput, with EmptyModifier as Mods and  *)
(* with EmptyKeySequence as a KeySeq.                                        *)
C20_BlankIsEmptyError ==
    ( lib.fn \in {"Key::from_str", "Mods::from_str", "KeyInput::from_str", "KeySeq::from_str"}
      /\ IsBlank(lib.args[1]) )
    => lib.out =
          Err(CASE Applied("Key::from_str") -> EmptyKey
                [] Applied("KeyInput::from_str") -> EmptyKey
                [] Applied("Mods::from_str") -> EmptyModifier
                [] Applied("KeySeq::from_str") -> EmptyKeySequence)

\* a string of four whitespace characters was parsed as a KeyInput
C20_Witness ==
    /\ Applied("KeyInput::from_str")
    /\ lib.args[1] = " \t\r\n"
    /\ lib.out = Err(EmptyKey)

\* the least element of a set of numbers that is not empty
Least(S) == CHOOSE i \in S : \A j \in S : i <= j

(* C21: parsing a sequence returns the error of the leftmost piece that      *)
(* fails to parse, and the parsed pieces in order when none fails; parsing   *)
(* one combination returns the error of its leftmost modifier that fails,    *)
(* else the error of its key, and only then the Shift restriction; an error  *)
(* carries no value.                                                         *)
C21_LeftmostErrorWins ==
    /\ Applied("KeySeq::from_str") =>
          LET toks == split_ascii_whitespace(lib.args[1])
              res(i) == ParseKeyInput(toks[i], target_macos)
              bad == { i \in 1 .. Len(toks) : ~res(i).ok }
          IN  IF bad # {} THEN lib.out = Err(res(Least(bad)).err)
              ELSE toks # <<>> => lib.out = Ok([i \in 1 .. Len(toks) |-> res(i).val])
    /\ Applied("KeyInput::from_str") =>
          LET toks == split(trim_ascii(lib.args[1]), "+")
              n == Len(toks)
              mod(i) == ParseMods(toks[i], target_macos)
              key == ParseKey(toks[n])
              bad == { i \in 1 .. (n - 1) : ~mod(i).ok }
          IN  IF bad # {} THEN lib.out = Err(mod(Least(bad)).err)
              ELSE IF ~key.ok THEN lib.out = Err(key.err)
              ELSE lib.out.ok \/ lib.out = Err(ShiftUnavailable(key.val))
    /\ ( lib.fn \in {"KeySeq::from_str", "KeyInput::from_str"} /\ ~lib.out.ok )
          => lib.out.val = <<>>

\* the second of three pieces has an unknown modifier and the third another
C21_Witness ==
    /\ Applied("KeySeq::from_str")
    /\ lib.args[1] = "a Bar+b Foo+c"
    /\ lib.out = Err(UnknownModifier("Bar"))

\* the letters of str in lower case and in upper case
LowerCase == "abcdefghijklmnopqrstuvwxyz"
UpperCase == "ABCDEFGHIJKLMNOPQRSTUVWXYZ"

RECURSIVE Recase(_, _, _)
Recase(str, from, to) ==
    IF str = "" THEN ""
    ELSE LET c == CharAt(str, 1) IN
         ( IF \E j \in 1 .. 26 : CharAt(from, j) = c
           THEN CharAt(to, CHOOSE j \in 1 .. 26 : CharAt(from, j) = c)
           ELSE c ) \o Recase(SubSeq(str, 2, Len(str)), from, to)

Lower(str) == Recase(str, UpperCase, LowerCase)
Upper(str) == Recase(str, LowerCase, UpperCase)

\* the spellings the names of modifiers and of named keys are documented in
CanonicalModNames ==
    {"Control", "Ctrl", "Command", "Cmd", "Mod", "Alt", "Option", "Super", "Shift"}
CanonicalKeyNames == { FormatKey(e.key) : e \in KeyNames } \cup {"Escape"}

\* the application at hand parsed a casing of the name n
CasingOf(n) == Lower(trim_ascii(lib.args[1])) = Lower(n)
\* ... in lower case, in upper case or as n is spelled
FixedCasingOf(n) == trim_ascii(lib.args[1]) \in {n, Lower(n), Upper(n)}

(* C22 as stated: every casing of the name of a modifier or of a named key   *)
(* parses to the value of the canonical spelling.                            *)
C22_EveryCasingParses ==
    /\ Applied("Mods::from_str") =>
          \A n \in CanonicalModNames :
              CasingOf(n) => lib.out = ParseMods(n, target_macos)
    /\ Applied("Key::from_str") =>
          \A n \in CanonicalKeyNames :
              CasingOf(n) => lib.out = ParseKey(n)

(* C22 amended: a name of a modifier or of a named key written as it is      *)
(* spelled, all in lower case or all in upper case parses to the value of    *)
(* the canonical spelling; every other casing of it is an unknown modifier   *)
(* or an unknown key.                                                        *)
C22_ThreeCasingsParse ==
    /\ Applied("Mods::from_str") =>
          \A n \in CanonicalModNames :
              CasingOf(n) =>
                  IF FixedCasingOf(n)
                  THEN lib.out.ok /\ lib.out = ParseMods(n, target_macos)
                  ELSE lib.out = Err(UnknownModifier(lib.args[1]))
    /\ Applied("Key::from_str") =>
          \A n \in CanonicalKeyNames :
              CasingOf(n) =>
                  IF FixedCasingOf(n)
                  THEN lib.out.ok /\ lib.out = ParseKey(n)
                  ELSE lib.out = Err(UnknownKey(trim_ascii(lib.args[1])))

\* the name of a two-word key all in upper case
C22_Witness ==
    /\ Applied("Key::from_str")
    /\ lib.args[1] = "PAGEUP"
    /\ lib.out = Ok(Named("PageUp"))

(* C23: a new dispatcher has a timeout of 1 second; set_timeout(d) makes the *)
(* timeout d and changes neither the buffer, the timer nor the table; and    *)
(* the first input looked up after set_timeout(d), while a match is ongoing, *)
(* is looked up alone when more than d has passed since the previous         *)
(* accepted input, and after the buffered inputs otherwise.                  *)
C23_SetTimeoutOnlyTimeout ==
    /\ timeout = 1
    /\ [][ /\ Calls("set_timeout") =>
                ( timeout' = op'.d /\ UNCHANGED <<binds, ongoing, last_input>> )
           /\ ( /\ op.name = "set_timeout"
                /\ ongoing # <<>>
                /\ Calls("dispatch")
                /\ op'.input.key # Ignored )
              => ( /\ last_input.some
                   /\ expired' = (now - last_input.t > op.d)
                   /\ probe' = IF now - last_input.t > op.d
                                THEN <<op'.input>>
                                ELSE Append(ongoing, op'.input) )
         ]_vars

\* the timeout was raised to 2 during a match whose last input is 2 old
C23_Witness ==
    /\ op = CallSetTimeout(2)
    /\ ongoing # <<>>
    /\ last_input.some
    /\ now - last_input.t = 2

\* the binding's sequence has, position by position, the keys and the
\* modifier sets of the first n inputs looked up
SameUpTo(seq, n) ==
    /\ n <= Len(seq)
    /\ n <= Len(probe)
    /\ \A j \in 1 .. n : seq[j].key = probe[j].key /\ seq[j].mods = probe[j].mods

(* C24: a dispatch returns an action only of a binding whose sequence has,   *)
(* at every position, exactly the key and exactly the modifier set of the    *)
(* inputs looked up, and goes on waiting only for such a binding with more   *)
(* inputs to come; when every binding differs from the inputs somewhere, be  *)
(* it by one modifier more or less, the dispatch returns None and the        *)
(* dispatcher is idle.                                                       *)
C24_ModifiersMatchExactly ==
    Looked =>
        LET exact == { i \in 1 .. Len(binds) :
                           Len(binds[i].seq) = Len(probe) /\ SameUpTo(binds[i].seq, Len(probe)) }
            begun == { i \in 1 .. Len(binds) :
                           Len(binds[i].seq) > Len(probe) /\ SameUpTo(binds[i].seq, Len(probe)) }
        IN  /\ ret.kind = "Some" <=> exact # {}
            /\ ret.kind = "Some" => \E i \in exact : binds[i].action = ret.action
            /\ ongoing # <<>> <=> (exact = {} /\ begun # {})
            /\ (exact = {} /\ begun = {}) => (ret = RetNone /\ ongoing = <<>>)

\* a and Ctrl+a are both bound, in this order, and Ctrl+a was dispatched
C24_Witness ==
    /\ Looked
    /\ probe = <<KeyInputNew(KeyA, CTRL)>>
    /\ Len(binds) = 2
    /\ binds[1].seq = <<KeyInputFrom(KeyA)>>
    /\ binds[2].seq = <<KeyInputNew(KeyA, CTRL)>>
    /\ ret = RetSome(binds[2].action)

(* C25: serializing a KeySeq without inputs is an error and gives the       *)
(* serializer no string; serializing a KeySeq with inputs gives its Display  *)
(* form; serializing a table gives a map with one entry per binding, in the  *)
(* order of registration, each the serialized sequence with the action --    *)
(* and so is an error when a binding's sequence has no inputs.               *)
C25_EmptyKeySeqNotSerialized ==
    /\ Applied("KeySeq::serialize") =>
          LET seq == lib.args[1] IN
          IF seq = <<>> THEN ~lib.out.ok /\ lib.out.val = <<>>
          ELSE lib.out = Ok(FormatKeySeq(seq))
    /\ Applied("Keybinds::serialize") =>
          LET table == lib.args[1] IN
          IF \E i \in 1 .. Len(table) : table[i].seq = <<>>
          THEN ~lib.out.ok
          ELSE /\ lib.out.ok
               /\ Len(lib.out.val) = Len(table)
               /\ \A i \in 1 .. Len(table) :
                      lib.out.val[i] = <<FormatKeySeq(table[i].seq), table[i].action>>

\* the empty sequence was refused
C25_Witness ==
    /\ Applied("KeySeq::serialize")
    /\ lib.args[1] = <<>>
    /\ lib.out = Err(Custom("Key sequence must not be empty"))

C27_EveryInputRestartsTimer ==
    [][ ( Calls("dispatch") /\ op'.input.key # Ignored )
        => /\ ongoing' # <<>> => last_input' = SomeInstant(now)
           /\ ( last_input.some /\ now - last_input.t <= timeout )
                 => ( probe' = Append(ongoing, op'.input) /\ since' = since )
      ]_vars

\* three inputs, each in time after the one before, made a match that took
\* longer than the timeout as a whole
C27_Witness ==
    /\ Looked
    /\ ret.kind = "Some"
    /\ Len(probe) = 3
    /\ ~expired
    /\ now - since > timeout

(* C28: the string a KeyInput or a KeySeq is rendered to parses to the      *)
(* value rendered; the rendering of a KeyInput lists the modifiers in the    *)
(* order Ctrl, Cmd, Alt, Win, Shift, each followed by '+', and then the name *)
(* of the key; the rendering of a KeySeq joins those of its inputs with      *)
(* single spaces.                                                            *)
C28_RenderThenParse ==
    /\ Applied("KeyInput::to_string") =>
          LET input == lib.args[1]
              Piece(bit, name) == IF contains(input.mods, bit) THEN name \o "+" ELSE ""
          IN  /\ ParseKeyInput(lib.out, target_macos) = Ok(input)
              /\ lib.out = Piece(CTRL, "Ctrl") \o Piece(CMD, "Cmd") \o Piece(ALT, "Alt")
                               \o Piece(WIN, "Win") \o Piece(SHIFT, "Shift")
                               \o FormatKey(input.key)
    /\ Applied("KeySeq::to_string") =>
          LET seq == lib.args[1] IN
          /\ ParseKeySeq(lib.out, target_macos) = Ok(seq)
          /\ split(lib.out, " ") =
                 IF seq = <<>> THEN <<"">>
                 ELSE [i \in 1 .. Len(seq) |-> FormatKeyInput(seq[i])]

(* C29 as stated: a key is named exactly when it is a variant other than    *)
(* Char or is Char(' ') or Char('+'), and KeyInput::new keeps Shift on every *)
(* key that is not a Char, Unidentified and Ignored included.                *)
C29_EveryVariantButCharNamed ==
    /\ Applied("Key::is_named") =>
          LET key == lib.args[1] IN
          lib.out = (key.tag # "Char" \/ key.ch \in {" ", "+"})
    /\ ( Applied("KeyInput::new") /\ lib.args[1].tag # "Char" )
          => lib.out.mods = lib.args[2]

(* C29 amended: a key is named exactly when it is a variant other than Char, *)
(* Unidentified and Ignored, or is Char(' ') or Char('+'); KeyInput::new     *)
(* keeps Shift on exactly these keys and takes it off every other Char and   *)
(* off Unidentified and Ignored, leaving the other modifiers as given.       *)
C29_SentinelsAreNotNamed ==
    /\ Applied("Key::is_named") =>
          LET key == lib.args[1] IN
          lib.out = IF key.tag = "Char" THEN key.ch \in {" ", "+"}
                    ELSE key \notin {Unidentified, Ignored}
    /\ Applied("KeyInput::new") =>
          LET key == lib.args[1]
              named == IF key.tag = "Char" THEN key.ch \in {" ", "+"}
                       ELSE key \notin {Unidentified, Ignored}
          IN  /\ lib.out.key = key
              /\ named => lib.out.mods = lib.args[2]
              /\ ~named => ( /\ ~contains(lib.out.mods, SHIFT)
                             /\ lib.out.mods % SHIFT = lib.args[2] % SHIFT )

\* Shift was taken off Unidentified
C29_Witness ==
    /\ Applied("KeyInput::new")
    /\ lib.args[1] = Unidentified
    /\ lib.args[2] = ALT + SHIFT
    /\ lib.out = KeyInput(Unidentified, ALT)

\* the pieces of the key combination str: the modifiers its pieces before
\* the last name, as a set, and the key its last piece names
PiecesOf(str) == split(trim_ascii(str), "+")
ModifiersNamed(str) ==
    { ParseMods(PiecesOf(str)[i], target_macos).val :
          i \in { j \in 1 .. (Len(PiecesOf(str)) - 1) :
                      ParseMods(PiecesOf(str)[j], target_macos).ok } }
KeyNamed(str) == ParseKey(PiecesOf(str)[Len(PiecesOf(str))])
\* every piece of str names a modifier or, the last, a key
AllNamed(str) ==
    /\ KeyNamed(str).ok
    /\ \A i \in 1 .. (Len(PiecesOf(str)) - 1) : ParseMods(PiecesOf(str)[i], target_macos).ok

(* C30: a key combination that parses has exactly the modifiers its pieces   *)
(* name, in whatever order and however often they are named: every string    *)
(* naming the same set of modifiers and the same key parses to an equal      *)
(* KeyInput, and the rendering of the KeyInput lists the modifiers in the    *)
(* order Ctrl, Cmd, Alt, Win, Shift, each once.                              *)
C30_ModifierOrderIrrelevant ==
    ( Applied("KeyInput::from_str") /\ lib.out.ok ) =>
        LET str == lib.args[1]
            input == lib.out.val
            Named_(name) == \E bit \in ModifiersNamed(str) :
                               \E r \in { ModNames[i] : i \in 1 .. Len(ModNames) } :
                                   r.value = bit /\ r.name = name
            order == <<"Ctrl", "Cmd", "Alt", "Win", "Shift">>
            shown == PiecesOf(FormatKeyInput(input))
        IN  /\ \A bit \in {CTRL, CMD, ALT, WIN, SHIFT} :
                   contains(input.mods, bit) <=> bit \in ModifiersNamed(str)
            /\ input.key = KeyNamed(str).val
            /\ \A other \in InputStrings :
                   ( /\ AllNamed(other)
                     /\ ModifiersNamed(other) = ModifiersNamed(str)
                     /\ KeyNamed(other).val = KeyNamed(str).val )
                   => InputParse[target_macos][other] = lib.out
            /\ SubSeq(shown, 1, Len(shown) - 1) = SelectSeq(order, Named_)

\* Shift is named twice, before and after Ctrl
C30_Witness ==
    /\ Applied("KeyInput::from_str")
    /\ lib.args[1] = "Shift+Ctrl+Shift+Tab"
    /\ lib.out = Ok(KeyInput(Named("Tab"), CTRL + SHIFT))
    /\ InputParse[target_macos]["Ctrl+Shift+Tab"] = lib.out

\* the key codes the frameworks give to the keys that are modifiers
ModifierCodes ==
    {"Modifier", "Hyper", "Super", "Meta", "Control", "LeftControl", "RightControl", "Shift",
     "LeftShift", "RightShift", "Alt", "LeftAlt", "RightAlt", "LeftWindows", "RightWindows",
     "Symbol"}

\* the conversion at hand was given the release of a key or an event of a
\* key that is a modifier
ReleaseOrModifier ==
    \/ Applied("crossterm::KeyEvent")
          /\ (lib.args[1].kind = "Release" \/ lib.args[1].code.tag \in ModifierCodes)
    \/ Applied("termwiz::KeyEvent") /\ lib.args[1].key.tag \in ModifierCodes
    \/ lib.fn \in {"winit::KeyEvent", "winit::WindowEvent"}
          /\ ( lib.args[1].state = "Released"
               \/ lib.args[1].logical_key.tag \in ModifierCodes )
    \/ Applied("iced::KeyEvent")
          /\ ( lib.args[1].tag = "KeyReleased"
               \/ lib.args[1].modified_key.tag \in ModifierCodes )

\* the KeyInput the conversion at hand returned
Returned == IF lib.fn \in {"winit::KeyEvent", "winit::WindowEvent"} THEN lib.out.input
            ELSE lib.out

(* C31: every conversion of the release of a key, and of an event of a key   *)
(* that is a modifier, returns the key Ignored with no modifiers, whatever   *)
(* modifiers the event or the converter holds.                               *)
C31_ReleaseAndModifierIgnored ==
    ReleaseOrModifier => Returned = KeyInput(Ignored, NONE)

\* the length of the longest registered sequence (0 for an empty table)
LongestRegistered ==
    IF binds = <<>> THEN 0
    ELSE CHOOSE n \in { Len(binds[i].seq) : i \in Registered } :
             \A i \in Registered : Len(binds[i].seq) <= n

(* C32: between API calls the buffer is empty, or it is a proper prefix of   *)
(* the sequence of some registered binding and equal to the sequence of      *)
(* none; so it is shorter than the longest registered sequence.              *)
C32_BufferIsOpenPrefix ==
    ongoing # <<>> =>
        /\ SomeExtends(ongoing)
        /\ ~SomeEquals(ongoing)
        /\ Len(ongoing) < LongestRegistered

\* two inputs are buffered while a binding of one input is registered
C32_Witness ==
    /\ Dispatched
    /\ Len(ongoing) = 2
    /\ \E i \in Registered : Len(binds[i].seq) = 1

(* C33: an input dispatched during an ongoing match, within the timeout,     *)
(* with which the buffer equals no registered sequence and begins none, is   *)
(* consumed with the buffer: dispatch returns None and leaves the buffer     *)
(* empty and the timer absent, also when the input alone equals or begins a  *)
(* registered sequence.  After a timeout the lookup is of the input alone.   *)
C33_BreakingInputConsumed ==
    Looked =>
        /\ ( Len(probe) >= 2 /\ ~SomeEquals(probe) /\ ~SomeExtends(probe) )
               => ( ret = RetNone /\ ongoing = <<>> /\ last_input = NoInstant )
        /\ expired => probe = <<op.input>>

\* the input that broke the match is alone a registered sequence
C33_Witness ==
    /\ Looked
    /\ ~expired
    /\ Len(probe) = 2
    /\ ~SomeEquals(probe)
    /\ ~SomeExtends(probe)
    /\ SomeEquals(<<op.input>>)
    /\ ret = RetNone
    /\ ongoing = <<>>

\* the step is one of the calls that end a match
EndsMatch ==
    \/ Calls("dispatch") /\ op'.input.key # Ignored
    \/ Calls("reset")
    \/ Calls("push")
    \/ Calls("bind") /\ ret'.kind = "Ok"

(* C34: a match that is ongoing stays ongoing, the buffer and the timer as   *)
(* they are, through every step other than a dispatch of a non-ignored       *)
(* input, reset, push or a bind that succeeds: neither the passing of time,  *)
(* however long, nor a dispatch of an ignored input ends it.                 *)
C34_ExpiryOnlyInDispatch ==
    [][ ( is_ongoing /\ ~EndsMatch )
        => ( is_ongoing' /\ ongoing' = ongoing /\ last_input' = last_input )
      ]_vars

\* the buffer is held while its timeout has passed by more than a unit of
\* time, an ignored input having been dispatched since
C34_Witness ==
    /\ is_ongoing
    /\ ongoing # <<>>
    /\ now - last_input.t > timeout + 1
    /\ Dispatched
    /\ op.input.key = Ignored
    /\ entry = last_input

(* C35: a bind whose string does not parse changes nothing of the          *)
(* dispatcher: the table, the timeout, and also the buffer and the timer of  *)
(* an ongoing match stay as they were, so that the match is still ongoing.   *)
C35_FailedBindKeepsMatch ==
    [][ ( Calls("bind") /\ ret'.kind = "Err" )
        => ( /\ UNCHANGED <<binds, ongoing, last_input, timeout>>
             /\ is_ongoing' = is_ongoing )
      ]_vars

\* bind has just failed during a match of one input that a binding extends
C35_Witness ==
    /\ op.name = "bind"
    /\ ret.kind = "Err"
    /\ entry.some
    /\ is_ongoing
    /\ Len(ongoing) = 1
    /\ SomeExtends(ongoing)

(* C36: a dispatch of an input whose key is Unidentified goes as that of    *)
(* any other key: the timeout is checked, the input is appended to the       *)
(* buffer that survived, and then the match fires, or stays ongoing with the *)
(* timer set to the time of this input, or is abandoned when no binding      *)
(* equals or extends the buffer.                                             *)
C36_UnidentifiedIsOrdinary ==
    [][ ( Calls("dispatch") /\ op'.input.key = Unidentified )
        => LET over == last_input.some /\ now - last_input.t > timeout
               buf == Append(IF over THEN <<>> ELSE ongoing, op'.input)
           IN  /\ expired' = over
               /\ probe' = buf
               /\ IF SomeEquals(buf)
                  THEN ret'.kind = "Some" /\ ongoing' = <<>> /\ last_input' = NoInstant
                  ELSE IF SomeExtends(buf)
                  THEN /\ ret' = RetNone
                       /\ ongoing' = buf
                       /\ last_input' = SomeInstant(now)
                  ELSE ret' = RetNone /\ ongoing' = <<>> /\ last_input' = NoInstant
      ]_vars

\* an Unidentified input was buffered as the second of a match, later than
\* the first, and the timer is at its time
C36_Witness ==
    /\ Dispatched
    /\ op.input.key = Unidentified
    /\ Len(ongoing) = 2
    /\ ongoing[2] = op.input
    /\ ~expired
    /\ last_input.some
    /\ last_input.t > since

\* an Unidentified input has just broken an ongoing match
C36_WitnessAbort ==
    /\ Dispatched
    /\ op.input.key = Unidentified
    /\ Len(probe) = 2
    /\ ongoing = <<>>
    /\ ret = RetNone

\* the sequence has no inputs or has an input whose key is Ignored
Unreachable(seq) == seq = <<>> \/ \E j \in 1 .. Len(seq) : seq[j].key = Ignored

(* C37: a binding whose sequence is empty or holds an input with the key     *)
(* Ignored can be registered, and its action is never returned by dispatch:  *)
(* the buffer that is looked up is never empty and, like the buffer that is  *)
(* kept, never holds an input with the key Ignored.                          *)
C37_UnreachableNeverFires ==
    /\ Looked => ( probe # <<>> /\ \A j \in 1 .. Len(probe) : probe[j].key # Ignored )
    /\ \A j \in 1 .. Len(ongoing) : ongoing[j].key # Ignored
    /\ ( Dispatched /\ ret.kind = "Some" )
          => \A i \in Registered :
                 binds[i].action = ret.action => ~Unreachable(binds[i].seq)

\* only a binding without inputs and a binding with an Ignored input are
\* registered, a match is ongoing through the input before the Ignored one,
\* and Ignored has been dispatched
C37_Witness ==
    /\ Len(binds) = 2
    /\ \E i \in Registered : binds[i].seq = <<>>
    /\ \E i \in Registered : binds[i].seq # <<>> /\ Unreachable(binds[i].seq)
    /\ is_ongoing
    /\ Len(ongoing) = 1
    /\ Dispatched
    /\ op.input.key = Ignored
    /\ ret = RetNone

====
